---- MODULE Spec2Model ----
(***************************************************************************)
(* Inquiry-resolution pipeline of the infrastructure support bot:          *)
(* classifier, knowledge retriever (vector search, relevance gate, Redis   *)
(* cache), team router and supervisor.  Texts are sequences of one-        *)
(* character strings, so that substring tests, lower-casing and trimming   *)
(* are computed the way the Python code computes them.                     *)
(***************************************************************************)
EXTENDS Integers, Sequences, FiniteSets, TLC

VARIABLES
  pc,          \* position of the pipeline: idle, received, classified, searched,
               \* branched, done, raised
  result,      \* the result dict process_inquiry builds
  cache,       \* the Redis keys: key -> [data, expires]
  clock,       \* seconds since the bot started
  retrieval,   \* the latest finished search_knowledge_base call
  calls,       \* collaborator calls made for the current inquiry
  chat,        \* the chat handler: its position, the inquiry it handles and
               \* the messages it has sent for it
  race,        \* the retriever calls running at the same time on the shared
               \* cache: the question and each call's position and locals
  fin,         \* arguments of a method called on its own
  fout         \* its outcome

pvars == <<pc, result, cache, clock, retrieval, calls, chat, race>>

vars == <<pc, result, cache, clock, retrieval, calls, chat, race, fin, fout>>

(***************************************************************************)
(* Text primitives (Python str methods used by the agents).                *)
(***************************************************************************)
ToLower ==
  [ A |-> "a", B |-> "b", C |-> "c", D |-> "d", E |-> "e", F |-> "f", G |-> "g", H |-> "h", I |-> "i", J |-> "j", K |-> "k", L |-> "l", M |-> "m", N |-> "n", O |-> "o", P |-> "p", Q |-> "q", R |-> "r", S |-> "s", T |-> "t", U |-> "u", V |-> "v", W |-> "w", X |-> "x", Y |-> "y", Z |-> "z" ]

\* str.lower()
Lower(s) == [i \in 1..Len(s) |-> IF s[i] \in DOMAIN ToLower THEN ToLower[s[i]] ELSE s[i]]

\* Python's  sub in text
Contains(sub, text) ==
  \E i \in 0..(Len(text) - Len(sub)) : SubSeq(text, i + 1, i + Len(sub)) = sub

Whitespace == {" ", "\t", "\n", "\r"}

RECURSIVE LStrip(_)
LStrip(s) == IF s # <<>> /\ Head(s) \in Whitespace THEN LStrip(Tail(s)) ELSE s

RECURSIVE RStrip(_)
RStrip(s) ==
  IF s # <<>> /\ s[Len(s)] \in Whitespace THEN RStrip(SubSeq(s, 1, Len(s) - 1)) ELSE s

\* str.strip()
Strip(s) == RStrip(LStrip(s))

\* Python's None, where the other values are texts or team names
None == "None"

\* an optional value of another type: None, or a value
Nothing == [some |-> FALSE]
Some(v) == [some |-> TRUE, val |-> v]

\* truth value of an optional list or text
Truthy(o) == o.some /\ o.val # <<>>

\* the outcome of a call to a collaborator: a value, or a raised exception
Ok(v) == [ok |-> TRUE, val |-> v]
Raised(e) == [ok |-> FALSE, err |-> e]

\* no method is called on its own
Idle == [fn |-> "none"]
NotRun == [done |-> FALSE]

(***************************************************************************)
(* RouterAgent (src/src/agents/router_agent.py).                           *)
(***************************************************************************)
TEAMS ==
  [ platform |-> <<
        <<"k", "u", "b", "e", "r", "n", "e", "t", "e", "s">>,
        <<"k", "8", "s">>,
        <<"p", "o", "d">>,
        <<"d", "e", "p", "l", "o", "y", "m", "e", "n", "t">>,
        <<"c", "o", "n", "t", "a", "i", "n", "e", "r">>,
        <<"d", "o", "c", "k", "e", "r">>,
        <<"s", "c", "a", "l", "i", "n", "g">>,
        <<"o", "r", "c", "h", "e", "s", "t", "r", "a", "t", "i", "o", "n">> >>,
    devops |-> <<
        <<"c", "i", "/", "c", "d">>,
        <<"p", "i", "p", "e", "l", "i", "n", "e">>,
        <<"j", "e", "n", "k", "i", "n", "s">>,
        <<"g", "i", "t", "l", "a", "b">>,
        <<"m", "o", "n", "i", "t", "o", "r", "i", "n", "g">>,
        <<"p", "r", "o", "m", "e", "t", "h", "e", "u", "s">>,
        <<"g", "r", "a", "f", "a", "n", "a">>,
        <<"a", "l", "e", "r", "t">>,
        <<"a", "u", "t", "o", "m", "a", "t", "i", "o", "n">> >>,
    database |-> <<
        <<"p", "o", "s", "t", "g", "r", "e", "s">>,
        <<"p", "o", "s", "t", "g", "r", "e", "s", "q", "l">>,
        <<"m", "y", "s", "q", "l">>,
        <<"d", "a", "t", "a", "b", "a", "s", "e">>,
        <<"d", "b">>,
        <<"s", "q", "l">>,
        <<"c", "o", "n", "n", "e", "c", "t", "i", "o", "n">>,
        <<"q", "u", "e", "r", "y">>,
        <<"p", "e", "r", "f", "o", "r", "m", "a", "n", "c", "e">> >>,
    security |-> <<
        <<"s", "s", "l">>,
        <<"t", "l", "s">>,
        <<"c", "e", "r", "t", "i", "f", "i", "c", "a", "t", "e">>,
        <<"a", "u", "t", "h">>,
        <<"a", "c", "c", "e", "s", "s">>,
        <<"p", "e", "r", "m", "i", "s", "s", "i", "o", "n">>,
        <<"v", "u", "l", "n", "e", "r", "a", "b", "i", "l", "i", "t", "y">>,
        <<"c", "o", "m", "p", "l", "i", "a", "n", "c", "e">>,
        <<"f", "i", "r", "e", "w", "a", "l", "l">> >>,
    network |-> <<
        <<"d", "n", "s">>,
        <<"l", "o", "a", "d", " ", "b", "a", "l", "a", "n", "c", "e", "r">>,
        <<"n", "g", "i", "n", "x">>,
        <<"c", "o", "n", "n", "e", "c", "t", "i", "v", "i", "t", "y">>,
        <<"n", "e", "t", "w", "o", "r", "k">>,
        <<"r", "o", "u", "t", "i", "n", "g">>,
        <<"p", "o", "r", "t">>,
        <<"i", "p">> >> ]

\* iteration order of the TEAMS dict (insertion order)
TeamOrder == <<"platform", "devops", "database", "security", "network">>

TeamName ==
  [ platform |-> <<"p", "l", "a", "t", "f", "o", "r", "m">>,
    devops |-> <<"d", "e", "v", "o", "p", "s">>,
    database |-> <<"d", "a", "t", "a", "b", "a", "s", "e">>,
    security |-> <<"s", "e", "c", "u", "r", "i", "t", "y">>,
    network |-> <<"n", "e", "t", "w", "o", "r", "k">> ]

\* number of places of the text at which the keyword starts
Count(keyword, text) ==
  Cardinality({i \in 1..(Len(text) - Len(keyword) + 1) :
                 SubSeq(text, i, i + Len(keyword) - 1) = keyword})

RECURSIVE SumCounts(_, _)
SumCounts(keywords, text) ==
  IF keywords = <<>> THEN 0
  ELSE Count(Head(keywords), text) + SumCounts(Tail(keywords), text)

\* the score adding text.count(keyword) for every keyword of the team
TeamScore_occurrences(team, text) == SumCounts(TEAMS[team], text)

\* the score _keyword_match gives a team: the number of the team's keywords
\* found in the text
TeamScore(team, text) ==
  Cardinality({i \in 1..Len(TEAMS[team]) : Contains(TEAMS[team][i], text)})

\* team_scores, indexed by position in TeamOrder
TeamScores(text) == [i \in 1..Len(TeamOrder) |-> TeamScore(TeamOrder[i], text)]

\* max(team_scores.values())
MaxScore(team_scores) ==
  CHOOSE m \in {team_scores[i] : i \in DOMAIN team_scores} :
    \A i \in DOMAIN team_scores : team_scores[i] <= m

\* max() taken as the last team reaching the maximum
FirstMaxTeam_last(team_scores) ==
  LET m == MaxScore(team_scores)
      i == CHOOSE j \in DOMAIN team_scores :
             /\ team_scores[j] = m
             /\ \A h \in DOMAIN team_scores : h > j => team_scores[h] # m
  IN  TeamOrder[i]

\* max(team_scores, key=team_scores.get): the first team, in iteration
\* order, whose score is the maximum
FirstMaxTeam(team_scores) ==
  LET m == MaxScore(team_scores)
      i == CHOOSE j \in DOMAIN team_scores :
             /\ team_scores[j] = m
             /\ \A h \in DOMAIN team_scores : h < j => team_scores[h] # m
  IN  TeamOrder[i]

_keyword_match(text) ==
  LET team_scores == TeamScores(text)
  IN  IF MaxScore(team_scores) > 0 THEN FirstMaxTeam(team_scores) ELSE None

\* _extract_team without its final return of platform
_extract_team_unknown(response) ==
  LET response_lower == Lower(response)
      hits == {i \in 1..Len(TeamOrder) : Contains(TeamName[TeamOrder[i]], response_lower)}
  IN  IF hits # {}
        THEN TeamOrder[CHOOSE i \in hits : \A j \in hits : i <= j]
        ELSE "unknown"

\* _extract_team returning the last team of the enumeration named in the
\* response
_extract_team_last(response) ==
  LET response_lower == Lower(response)
      hits == {i \in 1..Len(TeamOrder) : Contains(TeamName[TeamOrder[i]], response_lower)}
  IN  IF hits # {}
        THEN TeamOrder[CHOOSE i \in hits : \A j \in hits : i >= j]
        ELSE "platform"

_extract_team(response) ==
  LET response_lower == Lower(response)
      hits == {i \in 1..Len(TeamOrder) : Contains(TeamName[TeamOrder[i]], response_lower)}
  IN  IF hits # {}
        THEN TeamOrder[CHOOSE i \in hits : \A j \in hits : i <= j]
        ELSE "platform"

ReasonKeyword(team) ==
  <<"M", "a", "t", "c", "h", "e", "d", " ", "k", "e", "y", "w", "o", "r", "d", "s", " ", "f", "o", "r", " ">> \o TeamName[team] \o <<" ", "t", "e", "a", "m">>

ReasonDefault == <<"D", "e", "f", "a", "u", "l", "t", " ", "r", "o", "u", "t", "i", "n", "g", " ", "d", "u", "e", " ", "t", "o", " ", "e", "r", "r", "o", "r">>

\* route_inquiry without its try/except around the model call
route_inquiry_uncaught(question, category, llm) ==
  LET keyword_team == _keyword_match(Lower(question))
  IN  IF keyword_team # None
        THEN Ok([team |-> keyword_team, method |-> "keyword", confidence |-> "high",
                 reason |-> ReasonKeyword(keyword_team)])
        ELSE IF llm.ok
          THEN Ok([team |-> _extract_team(llm.val), method |-> "llm",
                   confidence |-> "medium", reason |-> Strip(llm.val)])
          ELSE llm

\* llm: the outcome of self.chain.invoke, Ok(text) or Raised(e).
\* The value is the outcome of the call: Ok(routing dict), or Raised(e) for
\* an exception that leaves the method.
route_inquiry(question, category, llm) ==
  LET keyword_team == _keyword_match(Lower(question))
  IN  IF keyword_team # None
        THEN Ok([team |-> keyword_team, method |-> "keyword", confidence |-> "high",
                 reason |-> ReasonKeyword(keyword_team)])
        ELSE IF llm.ok
          THEN Ok([team |-> _extract_team(llm.val), method |-> "llm",
                   confidence |-> "medium", reason |-> Strip(llm.val)])
          ELSE Ok([team |-> "platform", method |-> "default", confidence |-> "low",
                   reason |-> ReasonDefault])

\* whether route_inquiry reaches self.chain.invoke
RouterInvokesModel(question) == _keyword_match(Lower(question)) = None

(***************************************************************************)
(* VectorStore.search (src/src/db/vector_store.py).  Distances are in      *)
(* thousandths: 0.3 is 300.                                                *)
(***************************************************************************)
HighBelow == 300
MediumBelow == 600

\* the tiers with the bounds taken inclusively
Relevance_inclusive(distance) ==
  IF distance <= HighBelow THEN "high"
  ELSE IF distance <= MediumBelow THEN "medium"
  ELSE "low"

\* the tiers with tier high reaching up to the bound of the answer gate
Relevance_loose(distance) ==
  IF distance < 400 THEN "high"
  ELSE IF distance < MediumBelow THEN "medium"
  ELSE "low"

\* relevance tier of a distance
Relevance(distance) ==
  IF distance < HighBelow THEN "high"
  ELSE IF distance < MediumBelow THEN "medium"
  ELSE "low"

\* default k of search_knowledge_base
DefaultK == 3

FirstK(seq, k) == SubSeq(seq, 1, IF Len(seq) < k THEN Len(seq) ELSE k)

\* search with the backend's exception left uncaught
VectorSearch_uncaught(hits, k, fail) ==
  IF fail
    THEN Raised("ChromaError")
    ELSE Ok([i \in 1..Len(FirstK(hits, k)) |->
               [entry_id |-> hits[i].entry_id,
                score |-> hits[i].distance,
                relevance |-> Relevance(hits[i].distance)]])

\* hits: what collection.query finds for the query, [entry_id, distance] best
\* first; fail: the embedding or the query raises (caught, lines 125-127)
VectorSearch(hits, k, fail) ==
  IF fail
    THEN Ok(<<>>)
    ELSE Ok([i \in 1..Len(FirstK(hits, k)) |->
               [entry_id |-> hits[i].entry_id,
                score |-> hits[i].distance,
                relevance |-> Relevance(hits[i].distance)]])

(***************************************************************************)
(* RedisCache (src/src/utils/cache.py).  A key holds the serialized value  *)
(* and the time at which Redis drops it.                                   *)
(***************************************************************************)
\* json.dumps / json.loads of a list of candidate dicts
json_dumps(value) == [json |-> "array", items |-> value]
json_loads(text) == text.items

\* client.get: the stored text, or None once Redis has dropped the key
RedisGet(c, key, now) ==
  IF key \in DOMAIN c /\ now < c[key].expires THEN Some(c[key].data) ELSE Nothing

\* RedisCache.get with the client's exception left uncaught
CacheGet_uncaught(c, key, now, fail) ==
  IF fail
    THEN Raised("ConnectionError")
    ELSE LET value == RedisGet(c, key, now)
         IN  IF value.some THEN Ok(Some(json_loads(value.val))) ELSE Ok(Nothing)

\* RedisCache.get; fail: the client raises (caught, lines 36-38)
CacheGet(c, key, now, fail) ==
  IF fail
    THEN Ok(Nothing)
    ELSE LET value == RedisGet(c, key, now)
         IN  IF value.some THEN Ok(Some(json_loads(value.val))) ELSE Ok(Nothing)

\* client.setex
RedisSetex(c, key, ttl, data, now) ==
  [k \in DOMAIN c \cup {key} |->
     IF k = key THEN [data |-> data, expires |-> now + ttl] ELSE c[k]]

\* RedisCache.set with the entry kept for half the TTL
CacheSet_short(c, key, value, ttl, now, fail) ==
  IF fail
    THEN [ok |-> TRUE, val |-> FALSE, cache |-> c]
    ELSE [ok |-> TRUE, val |-> TRUE,
          cache |-> RedisSetex(c, key, ttl \div 2, json_dumps(value), now)]

\* RedisCache.set storing only the first item of a list
CacheSet_first(c, key, value, ttl, now, fail) ==
  IF fail
    THEN [ok |-> TRUE, val |-> FALSE, cache |-> c]
    ELSE [ok |-> TRUE, val |-> TRUE,
          cache |-> RedisSetex(c, key, ttl, json_dumps(FirstK(value, 1)), now)]

\* RedisCache.set; fail: the client raises (caught, lines 45-47).  cache is
\* the store afterwards.
CacheSet(c, key, value, ttl, now, fail) ==
  IF fail
    THEN [ok |-> TRUE, val |-> FALSE, cache |-> c]
    ELSE [ok |-> TRUE, val |-> TRUE,
          cache |-> RedisSetex(c, key, ttl, json_dumps(value), now)]

(***************************************************************************)
(* KnowledgeAgent (src/src/agents/knowledge_agent.py).                     *)
(***************************************************************************)
KeyPrefix == <<"k", "b", "_", "s", "e", "a", "r", "c", "h", ":">>

CacheKey(query) == KeyPrefix \o query

CacheTTL == 3600

\* f: which collaborator calls raise, [get, search, set].  ret is the
\* outcome of the call, cache the store afterwards; searched and set_called
\* tell which collaborators were called.
search_knowledge_base(query, c, now, hits, f) ==
  LET cache_key == CacheKey(query)
      cached_result == CacheGet(c, cache_key, now, f.get)
  IN  IF ~cached_result.ok
        THEN [ret |-> cached_result, cache |-> c, searched |-> FALSE, set_called |-> FALSE]
      ELSE IF Truthy(cached_result.val)
        THEN [ret |-> Ok(cached_result.val.val), cache |-> c, searched |-> FALSE,
              set_called |-> FALSE]
      ELSE LET results == VectorSearch(hits, DefaultK, f.search)
           IN  IF ~results.ok
                 THEN [ret |-> results, cache |-> c, searched |-> TRUE, set_called |-> FALSE]
               ELSE IF results.val # <<>>
                 THEN LET w == CacheSet(c, cache_key, results.val, CacheTTL, now, f.set)
                      IN  [ret |-> IF w.ok THEN results ELSE w, cache |-> w.cache,
                           searched |-> TRUE, set_called |-> TRUE]
               ELSE [ret |-> results, cache |-> c, searched |-> TRUE, set_called |-> FALSE]

GateBelow == 400

\* the filter of answer_question with the distance bound dropped
StrictGate_tier_only(search_results) ==
  SelectSeq(search_results, LAMBDA r : r.relevance = "high")

\* high_relevance
StrictGate(search_results) ==
  SelectSeq(search_results, LAMBDA r : r.relevance = "high" /\ r.score < GateBelow)

\* answer_question with the model called before the candidates are filtered
AnswerFrom_eager(search_results, llm) ==
  IF search_results = <<>>
    THEN [synth_called |-> FALSE,
          ret |-> Ok([found |-> FALSE, answer |-> None, source |-> None,
                      confidence |-> "none"])]
    ELSE LET high_relevance == StrictGate(search_results)
         IN  IF ~llm.ok
               THEN [synth_called |-> TRUE,
                     ret |-> Ok([found |-> FALSE, answer |-> None, source |-> None,
                                 confidence |-> "error", error |-> llm.err])]
               ELSE IF high_relevance = <<>>
                 THEN [synth_called |-> TRUE,
                       ret |-> Ok([found |-> FALSE, answer |-> None, source |-> None,
                                   confidence |-> "low", search_attempted |-> TRUE])]
                 ELSE [synth_called |-> TRUE,
                       ret |-> Ok([found |-> TRUE, answer |-> llm.val,
                                   source |-> high_relevance[1],
                                   confidence |-> high_relevance[1].relevance,
                                   all_results |-> high_relevance])]

\* answer_question without its try/except around the model call
AnswerFrom_uncaught(search_results, llm) ==
  IF search_results = <<>>
    THEN [synth_called |-> FALSE,
          ret |-> Ok([found |-> FALSE, answer |-> None, source |-> None,
                      confidence |-> "none"])]
    ELSE LET high_relevance == StrictGate(search_results)
         IN  IF high_relevance = <<>>
               THEN [synth_called |-> FALSE,
                     ret |-> Ok([found |-> FALSE, answer |-> None, source |-> None,
                                 confidence |-> "low", search_attempted |-> TRUE])]
               ELSE IF llm.ok
                 THEN [synth_called |-> TRUE,
                       ret |-> Ok([found |-> TRUE, answer |-> llm.val,
                                   source |-> high_relevance[1],
                                   confidence |-> high_relevance[1].relevance,
                                   all_results |-> high_relevance])]
                 ELSE [synth_called |-> TRUE, ret |-> llm]

\* answer_question taking the last surviving candidate as the best match
AnswerFrom_last(search_results, llm) ==
  IF search_results = <<>>
    THEN [synth_called |-> FALSE,
          ret |-> Ok([found |-> FALSE, answer |-> None, source |-> None,
                      confidence |-> "none"])]
    ELSE LET high_relevance == StrictGate(search_results)
         IN  IF high_relevance = <<>>
               THEN [synth_called |-> FALSE,
                     ret |-> Ok([found |-> FALSE, answer |-> None, source |-> None,
                                 confidence |-> "low", search_attempted |-> TRUE])]
               ELSE IF llm.ok
                 THEN [synth_called |-> TRUE,
                       ret |-> Ok([found |-> TRUE, answer |-> llm.val,
                                   source |-> high_relevance[Len(high_relevance)],
                                   confidence |-> high_relevance[Len(high_relevance)].relevance,
                                   all_results |-> high_relevance])]
                 ELSE [synth_called |-> TRUE,
                       ret |-> Ok([found |-> FALSE, answer |-> None, source |-> None,
                                   confidence |-> "error", error |-> llm.err])]

\* answer_question from the candidate list on (lines 59-113); llm: the
\* outcome of self.chain.invoke.  The value: [ret, synth_called].
AnswerFrom(search_results, llm) ==
  IF search_results = <<>>
    THEN [synth_called |-> FALSE,
          ret |-> Ok([found |-> FALSE, answer |-> None, source |-> None,
                      confidence |-> "none"])]
    ELSE LET high_relevance == StrictGate(search_results)
         IN  IF high_relevance = <<>>
               THEN [synth_called |-> FALSE,
                     ret |-> Ok([found |-> FALSE, answer |-> None, source |-> None,
                                 confidence |-> "low", search_attempted |-> TRUE])]
               ELSE IF llm.ok
                 THEN [synth_called |-> TRUE,
                       ret |-> Ok([found |-> TRUE, answer |-> llm.val,
                                   source |-> high_relevance[1],
                                   confidence |-> high_relevance[1].relevance,
                                   all_results |-> high_relevance])]
                 ELSE [synth_called |-> TRUE,
                       ret |-> Ok([found |-> FALSE, answer |-> None, source |-> None,
                                   confidence |-> "error", error |-> llm.err])]

\* ret is the outcome of the call; search_results is the candidate list
\* line 59 obtained.
answer_question(question, c, now, hits, f, llm) ==
  LET s == search_knowledge_base(question, c, now, hits, f)
  IN  IF s.ret.ok
        THEN LET a == AnswerFrom(s.ret.val, llm)
             IN  [ret |-> a.ret, cache |-> s.cache, search_results |-> s.ret.val,
                  searched |-> s.searched, set_called |-> s.set_called,
                  synth_called |-> a.synth_called]
        ELSE [ret |-> s.ret, cache |-> s.cache, search_results |-> <<>>,
              searched |-> s.searched, set_called |-> s.set_called,
              synth_called |-> FALSE]

(***************************************************************************)
(* SupervisorAgent (src/src/agents/supervisor.py).                         *)
(***************************************************************************)
\* str.split(sep) for a one-character separator
RECURSIVE Split(_, _)
Split(s, sep) ==
  IF \E i \in 1..Len(s) : s[i] = sep
    THEN LET i == CHOOSE j \in 1..Len(s) : s[j] = sep /\ \A h \in 1..(j - 1) : s[h] # sep
         IN  <<SubSeq(s, 1, i - 1)>> \o Split(SubSeq(s, i + 1, Len(s)), sep)
    ELSE <<s>>

\* str.replace("_", " ")
ReplaceUnderscore(s) == [i \in 1..Len(s) |-> IF s[i] = "_" THEN " " ELSE s[i]]

\* d[key] = value
DictSet(d, key, value) ==
  [k \in DOMAIN d \cup {key} |-> IF k = key THEN value ELSE d[k]]

\* dict.get(key, default)
DictGet(d, key, default) == IF key \in DOMAIN d THEN d[key] ELSE default

EmptyDict == [k \in {} |-> None]

W_urgency == <<"u", "r", "g", "e", "n", "c", "y">>
W_category == <<"c", "a", "t", "e", "g", "o", "r", "y">>
W_needs == <<"n", "e", "e", "d", "s">>
W_ticket == <<"t", "i", "c", "k", "e", "t">>
W_yes == <<"y", "e", "s">>
W_medium == <<"m", "e", "d", "i", "u", "m">>
W_other == <<"o", "t", "h", "e", "r">>
W_general == <<"g", "e", "n", "e", "r", "a", "l">>

\* the parsing loop keeping the first value given for a field
ParseLine_first_wins(classification, line) ==
  IF \E i \in 1..Len(line) : line[i] = ":"
    THEN LET i == CHOOSE j \in 1..Len(line) :
                    line[j] = ":" /\ \A h \in 1..(j - 1) : line[h] # ":"
             key == ReplaceUnderscore(Lower(Strip(SubSeq(line, 1, i - 1))))
             value == Lower(Strip(SubSeq(line, i + 1, Len(line))))
         IN  IF Contains(W_urgency, key)
               THEN (IF "urgency" \in DOMAIN classification THEN classification
                     ELSE DictSet(classification, "urgency", value))
             ELSE IF Contains(W_category, key)
               THEN (IF "category" \in DOMAIN classification THEN classification
                     ELSE DictSet(classification, "category", value))
             ELSE IF Contains(W_needs, key) \/ Contains(W_ticket, key)
               THEN (IF "needs_ticket" \in DOMAIN classification THEN classification
                     ELSE DictSet(classification, "needs_ticket", value = W_yes))
             ELSE classification
    ELSE classification

\* one iteration of the parsing loop
ParseLine(classification, line) ==
  IF \E i \in 1..Len(line) : line[i] = ":"
    THEN LET i == CHOOSE j \in 1..Len(line) :
                    line[j] = ":" /\ \A h \in 1..(j - 1) : line[h] # ":"
             key == ReplaceUnderscore(Lower(Strip(SubSeq(line, 1, i - 1))))
             value == Lower(Strip(SubSeq(line, i + 1, Len(line))))
         IN  IF Contains(W_urgency, key)
               THEN DictSet(classification, "urgency", value)
             ELSE IF Contains(W_category, key)
               THEN DictSet(classification, "category", value)
             ELSE IF Contains(W_needs, key) \/ Contains(W_ticket, key)
               THEN DictSet(classification, "needs_ticket", value = W_yes)
             ELSE classification
    ELSE classification

RECURSIVE ParseLines(_, _)
ParseLines(classification, lines) ==
  IF lines = <<>> THEN classification
  ELSE ParseLines(ParseLine(classification, Head(lines)), Tail(lines))

\* the except branch returning the category the ticket template falls back to
DefaultClassification_general ==
  [urgency |-> W_medium, category |-> W_general, needs_ticket |-> TRUE]

DefaultClassification ==
  [urgency |-> W_medium, category |-> W_other, needs_ticket |-> TRUE]

\* llm: the outcome of self.classifier_chain.invoke
_classify_inquiry(llm) ==
  IF llm.ok
    THEN Ok(ParseLines(EmptyDict, Split(llm.val, "\n")))
    ELSE Ok(DefaultClassification)

W_low == <<"l", "o", "w">>
W_high == <<"h", "i", "g", "h">>
W_critical == <<"c", "r", "i", "t", "i", "c", "a", "l">>

\* the mapping with Low as the fallback of mapping.get
_urgency_to_priority_default_low(urgency) ==
  LET u == Lower(urgency)
  IN  CASE u = W_low -> "Low"
        [] u = W_medium -> "Medium"
        [] u = W_high -> "High"
        [] u = W_critical -> "Critical"
        [] OTHER -> "Low"

_urgency_to_priority(urgency) ==
  LET u == Lower(urgency)
  IN  CASE u = W_low -> "Low"
        [] u = W_medium -> "Medium"
        [] u = W_high -> "High"
        [] u = W_critical -> "Critical"
        [] OTHER -> "Medium"

SummaryLimit == 100
SummaryKeep == 97
Ellipsis == <<".", ".", ".">>

NotSpecified == <<"N", "o", "t", " ", "s", "p", "e", "c", "i", "f", "i", "e", "d">>

\* environment or 'Not specified'
OrNotSpecified(o) == IF Truthy(o) THEN o.val ELSE NotSpecified

\* the summary truncating from 100 characters on
TicketSummary_at_limit(question) ==
  IF Len(question) >= SummaryLimit
    THEN SubSeq(question, 1, SummaryKeep) \o Ellipsis
    ELSE question

\* question[:97] + "..." if len(question) > 100 else question
TicketSummary(question) ==
  IF Len(question) > SummaryLimit
    THEN SubSeq(question, 1, SummaryKeep) \o Ellipsis
    ELSE question

\* the description is kept as the values its template embeds
_generate_ticket_details(question, classification, team, environment, deadline) ==
  [summary |-> TicketSummary(question),
   description |-> [question |-> question,
                    environment |-> OrNotSpecified(environment),
                    deadline |-> OrNotSpecified(deadline),
                    urgency |-> DictGet(classification, "urgency", W_medium),
                    category |-> DictGet(classification, "category", W_general),
                    team |-> team],
   labels |-> <<TeamName[team],
                DictGet(classification, "category", W_general),
                DictGet(classification, "urgency", W_medium),
                <<"a", "u", "t", "o", "m", "a", "t", "e", "d">>,
                <<"i", "n", "f", "r", "a", "s", "t", "r", "u", "c", "t", "u", "r", "e">>>>,
   team |-> team,
   priority |-> _urgency_to_priority(DictGet(classification, "urgency", W_medium))]

(***************************************************************************)
(* The knowledge base the bot is started with: what the vector index       *)
(* returns for each question, best first.                                  *)
(***************************************************************************)
Q_pod == <<"H", "o", "w", " ", "d", "o", " ", "I", " ", "r", "e", "s", "t", "a", "r", "t", " ", "a", " ", "p", "o", "d", "?">>
Q_postgres == <<"o", "u", "r", " ", "p", "o", "s", "t", "g", "r", "e", "s", " ", "i", "s", " ", "d", "o", "w", "n", " ", "i", "n", " ", "p", "r", "o", "d">>
Q_hello == <<"H", "e", "l", "l", "o", ",", " ", "a", "n", "y", "o", "n", "e", " ", "t", "h", "e", "r", "e", "?">>

Questions == {Q_pod, Q_postgres, Q_hello}

Hits(query) ==
  CASE query = Q_pod ->
         << [entry_id |-> "kb-1", distance |-> 100],
            [entry_id |-> "kb-2", distance |-> 299],
            [entry_id |-> "kb-3", distance |-> 300],
            [entry_id |-> "kb-4", distance |-> 650] >>
    [] query = Q_hello ->
         << [entry_id |-> "kb-3", distance |-> 350],
            [entry_id |-> "kb-4", distance |-> 700] >>
    [] OTHER -> << >>

\* the inquiries users send: question, environment, deadline
Requests ==
  { [question |-> Q_pod, environment |-> Nothing, deadline |-> Nothing],
    [question |-> Q_postgres, environment |-> Some(<<"p", "r", "o", "d">>), deadline |-> Nothing],
    [question |-> Q_hello, environment |-> Nothing, deadline |-> Nothing] }

ClassifierResponses ==
  { <<"U", "R", "G", "E", "N", "C", "Y", ":", " ", "h", "i", "g", "h", "\n", "C", "A", "T", "E", "G", "O", "R", "Y", ":", " ", "d", "a", "t", "a", "b", "a", "s", "e", "\n", "N", "E", "E", "D", "S", "_", "T", "I", "C", "K", "E", "T", ":", " ", "y", "e", "s">>,
    <<>> }

ClassifierOutcomes == {Ok(r) : r \in ClassifierResponses} \cup {Raised("TimeoutError")}

SynthAnswers == { <<"R", "e", "s", "t", "a", "r", "t", " ", "t", "h", "e", " ", "p", "o", "d", ".">> }

SynthOutcomes == {Ok(a) : a \in SynthAnswers} \cup {Raised("TimeoutError")}

PipelineRouterOutcomes == {Ok(<<"n", "e", "t", "w", "o", "r", "k", " ", "-", " ", "i", "t", " ", "i", "s", " ", "a", " ", "c", "o", "n", "n", "e", "c", "t", "i", "v", "i", "t", "y", " ", "p", "r", "o", "b", "l", "e", "m">>), Raised("TimeoutError")}

MaxClock == 3600

TickSteps == {1800}

NoCalls ==
  [classifier |-> 0, cache_get |-> 0, search |-> 0, cache_set |-> 0, synth |-> 0,
   router |-> 0, raised |-> {}]

(***************************************************************************)
(* process_inquiry, one action per stage.                                   *)
(***************************************************************************)
NoRetrieval == [q |-> <<>>, none |-> TRUE]

\* no inquiry has reached the chat handler
NoChat == [pc |-> "idle"]

\* no retriever call is running
NoRace == [q |-> <<>>, inst |-> <<>>]

PipelineInit ==
  /\ chat = NoChat
  /\ race = NoRace
  /\ pc = "idle"
  /\ result = EmptyDict
  /\ cache = EmptyDict
  /\ clock = 0
  /\ retrieval = NoRetrieval
  /\ calls = NoCalls

\* the handler is entered with a question (lines 55-63)
Receive ==
  /\ pc \in {"idle", "done", "raised"}
  /\ \E rq \in Requests :
       result' = [question |-> rq.question, environment |-> rq.environment,
                  deadline |-> rq.deadline, steps |-> <<>>]
  /\ pc' = "received"
  /\ calls' = NoCalls
  /\ UNCHANGED <<cache, clock, retrieval>>

\* Step 1 (lines 65-68)
Classify ==
  /\ pc = "received"
  /\ \E llm \in ClassifierOutcomes :
       LET r == _classify_inquiry(llm)
       IN  /\ calls' = [calls EXCEPT !.classifier = @ + 1,
                                     !.raised = IF llm.ok THEN @ ELSE @ \cup {"classifier"}]
           /\ IF r.ok
                THEN /\ result' = DictSet(DictSet(result, "classification", r.val),
                                          "steps", Append(result.steps, "classified"))
                     /\ pc' = "classified"
                ELSE /\ result' = result
                     /\ pc' = "raised"
  /\ UNCHANGED <<cache, clock, retrieval>>

\* Step 2 (lines 70-73)
SearchKB ==
  /\ pc = "classified"
  /\ \E f \in [get : BOOLEAN, search : BOOLEAN, set : BOOLEAN], llm \in SynthOutcomes :
       LET a == answer_question(result.question, cache, clock, Hits(result.question), f, llm)
           key == CacheKey(result.question)
           event == [q |-> result.question,
                     t |-> clock,
                     live |-> RedisGet(cache, key, clock).some,
                     ok |-> a.ret.ok,
                     get_failed |-> f.get,
                     searched |-> a.searched,
                     set_called |-> a.set_called,
                     set_failed |-> a.set_called /\ f.set,
                     ret |-> a.search_results]
       IN  /\ cache' = a.cache
           /\ retrieval' = event
           /\ calls' = [calls EXCEPT
                          !.cache_get = @ + 1,
                          !.search = @ + (IF a.searched THEN 1 ELSE 0),
                          !.cache_set = @ + (IF a.set_called THEN 1 ELSE 0),
                          !.synth = @ + (IF a.synth_called THEN 1 ELSE 0),
                          !.raised = @ \cup (IF f.get THEN {"cache_get"} ELSE {})
                                       \cup (IF a.searched /\ f.search THEN {"search"} ELSE {})
                                       \cup (IF a.set_called /\ f.set THEN {"cache_set"} ELSE {})
                                       \cup (IF a.synth_called /\ ~llm.ok THEN {"synth"} ELSE {})]
           /\ IF a.ret.ok
                THEN /\ result' = DictSet(DictSet(result, "knowledge_base", a.ret.val),
                                          "steps", Append(result.steps, "searched_kb"))
                     /\ pc' = "searched"
                ELSE /\ result' = result
                     /\ pc' = "raised"
  /\ UNCHANGED clock

\* the test of line 76 with every searched result taken as an answer
AnswersFromKB_searched(kb_result) == kb_result.confidence # "none"

\* the test of line 76
AnswersFromKB(kb_result) ==
  kb_result.found /\ kb_result.confidence \in {"high", "medium"}

\* lines 78-82
AnswerBranch(res) ==
  [k \in DOMAIN res \cup {"action", "answer", "source", "requires_ticket"} |->
     CASE k = "action" -> "answer_from_kb"
       [] k = "answer" -> res.knowledge_base.answer
       [] k = "source" -> res.knowledge_base.source
       [] k = "requires_ticket" -> FALSE
       [] k = "steps" -> Append(res.steps, "answered_from_kb")
       [] OTHER -> res[k]]

\* lines 85-86
TicketAction(res) ==
  [k \in DOMAIN res \cup {"action", "requires_ticket"} |->
     CASE k = "action" -> "create_ticket"
       [] k = "requires_ticket" -> TRUE
       [] OTHER -> res[k]]

\* the ticket branch copying the retriever's answer field into the result
TicketBranch_with_answer(res, routing) ==
  [k \in DOMAIN res \cup {"action", "requires_ticket", "routing", "assigned_team",
                          "ticket_details", "answer"} |->
     CASE k = "action" -> "create_ticket"
       [] k = "requires_ticket" -> TRUE
       [] k = "answer" -> res.knowledge_base.answer
       [] k = "routing" -> routing
       [] k = "assigned_team" -> routing.team
       [] k = "ticket_details" ->
            _generate_ticket_details(res.question, res.classification, routing.team,
                                     res.environment, res.deadline)
       [] k = "steps" -> res.steps \o <<"routed_to_team", "generated_ticket_details">>
       [] OTHER -> res[k]]

\* the ticket branch recording the ticket details before the routing
TicketBranch_details_first(res, routing) ==
  [k \in DOMAIN res \cup {"action", "requires_ticket", "routing", "assigned_team",
                          "ticket_details"} |->
     CASE k = "action" -> "create_ticket"
       [] k = "requires_ticket" -> TRUE
       [] k = "routing" -> routing
       [] k = "assigned_team" -> routing.team
       [] k = "ticket_details" ->
            _generate_ticket_details(res.question, res.classification, routing.team,
                                     res.environment, res.deadline)
       [] k = "steps" -> res.steps \o <<"generated_ticket_details", "routed_to_team">>
       [] OTHER -> res[k]]

\* lines 85-103, routing being the value route_inquiry returned
TicketBranch(res, routing) ==
  [k \in DOMAIN res \cup {"action", "requires_ticket", "routing", "assigned_team",
                          "ticket_details"} |->
     CASE k = "action" -> "create_ticket"
       [] k = "requires_ticket" -> TRUE
       [] k = "routing" -> routing
       [] k = "assigned_team" -> routing.team
       [] k = "ticket_details" ->
            _generate_ticket_details(res.question, res.classification, routing.team,
                                     res.environment, res.deadline)
       [] k = "steps" -> res.steps \o <<"routed_to_team", "generated_ticket_details">>
       [] OTHER -> res[k]]

\* step 3 answering from the knowledge base only when the classifier asked
\* for no ticket
Branch_needs_ticket(res, llm) ==
  IF AnswersFromKB(res.knowledge_base)
       /\ ~DictGet(res.classification, "needs_ticket", FALSE)
    THEN Ok(AnswerBranch(res))
    ELSE LET r == route_inquiry(res.question,
                                DictGet(res.classification, "category", <<>>), llm)
         IN  IF r.ok THEN Ok(TicketBranch(res, r.val)) ELSE r

\* steps 3 and 4 (lines 76-103); llm: the outcome of the router's model call
Branch(res, llm) ==
  IF AnswersFromKB(res.knowledge_base)
    THEN Ok(AnswerBranch(res))
    ELSE LET r == route_inquiry(res.question,
                                DictGet(res.classification, "category", <<>>), llm)
         IN  IF r.ok THEN Ok(TicketBranch(res, r.val)) ELSE r

\* process_inquiry as one call.  o: the outcomes of the collaborator calls,
\* [classifier, f, synth, router].  ret is the outcome of the call, cache the
\* store afterwards, query the text handed to answer_question.
process_inquiry(rq, c, now, o) ==
  LET r0 == [question |-> rq.question, environment |-> rq.environment,
             deadline |-> rq.deadline, steps |-> <<>>]
      cl == _classify_inquiry(o.classifier)
  IN  IF ~cl.ok
        THEN [ret |-> cl, cache |-> c, query |-> Nothing]
        ELSE LET r1 == DictSet(DictSet(r0, "classification", cl.val),
                               "steps", Append(r0.steps, "classified"))
                 a == answer_question(rq.question, c, now, Hits(rq.question), o.f, o.synth)
             IN  IF ~a.ret.ok
                   THEN [ret |-> a.ret, cache |-> a.cache, query |-> Some(rq.question)]
                   ELSE LET r2 == DictSet(DictSet(r1, "knowledge_base", a.ret.val),
                                          "steps", Append(r1.steps, "searched_kb"))
                            b == Branch(r2, o.router)
                        IN  [ret |-> IF b.ok THEN Ok(DictSet(b.val, "completed", TRUE)) ELSE b,
                             cache |-> a.cache,
                             query |-> Some(rq.question)]

\* Step 3, first branch (lines 76-82)
AnswerFromKB ==
  /\ pc = "searched"
  /\ AnswersFromKB(result.knowledge_base)
  /\ result' = AnswerBranch(result)
  /\ pc' = "branched"
  /\ UNCHANGED <<cache, clock, retrieval, calls>>

\* Step 3, second branch, and step 4 (lines 83-103)
CreateTicket ==
  /\ pc = "searched"
  /\ ~AnswersFromKB(result.knowledge_base)
  /\ \E llm \in PipelineRouterOutcomes :
       LET category == DictGet(result.classification, "category", <<>>)
           r == route_inquiry(result.question, category, llm)
           called == RouterInvokesModel(result.question)
       IN  /\ calls' = [calls EXCEPT
                          !.router = @ + (IF called THEN 1 ELSE 0),
                          !.raised = @ \cup (IF called /\ ~llm.ok THEN {"router"} ELSE {})]
           /\ IF r.ok
                THEN /\ result' = TicketBranch(result, r.val)
                     /\ pc' = "branched"
                ELSE /\ result' = TicketAction(result)
                     /\ pc' = "raised"
  /\ UNCHANGED <<cache, clock, retrieval>>

\* lines 105-106
Complete ==
  /\ pc = "branched"
  /\ result' = DictSet(result, "completed", TRUE)
  /\ pc' = "done"
  /\ UNCHANGED <<cache, clock, retrieval, calls>>

\* time passes between two inquiries
Tick ==
  /\ pc \in {"idle", "done", "raised"}
  /\ \E d \in TickSteps :
       /\ clock + d <= MaxClock
       /\ clock' = clock + d
  /\ UNCHANGED <<pc, result, cache, retrieval, calls>>

Init ==
  /\ PipelineInit
  /\ fin = Idle
  /\ fout = NotRun

Next ==
  \/ (Receive /\ UNCHANGED <<chat, race, fin, fout>>)
  \/ (Classify /\ UNCHANGED <<chat, race, fin, fout>>)
  \/ (SearchKB /\ UNCHANGED <<chat, race, fin, fout>>)
  \/ (AnswerFromKB /\ UNCHANGED <<chat, race, fin, fout>>)
  \/ (CreateTicket /\ UNCHANGED <<chat, race, fin, fout>>)
  \/ (Complete /\ UNCHANGED <<chat, race, fin, fout>>)
  \/ (Tick /\ UNCHANGED <<chat, race, fin, fout>>)

Spec == Init /\ [][Next]_vars

(***************************************************************************)
(* SlackBot (src/src/slack_bot.py): the handler of one inquiry.  A         *)
(* character outside ASCII is written by its code point.  The templates    *)
(* of config/prompts.py are kept as the values they embed.                 *)
(***************************************************************************)
ProcessingText == <<"U+1F50D", " ", "P", "r", "o", "c", "e", "s", "s", "i", "n", "g", " ", "y", "o", "u", "r", " ", "i", "n", "q", "u", "i", "r", "y", ".", ".", ".">>

ErrorMessage == <<"F", "a", "i", "l", "e", "d", " ", "t", "o", " ", "p", "r", "o", "c", "e", "s", "s", " ", "y", "o", "u", "r", " ", "i", "n", "q", "u", "i", "r", "y", ".", " ", "P", "l", "e", "a", "s", "e", " ", "t", "r", "y", " ", "a", "g", "a", "i", "n", ".">>

RoutedPrefix == <<"U+1F4CB", " ", "Y", "o", "u", "r", " ", "i", "n", "q", "u", "i", "r", "y", " ", "h", "a", "s", " ", "b", "e", "e", "n", " ", "r", "e", "c", "e", "i", "v", "e", "d", " ", "a", "n", "d", " ", "w", "i", "l", "l", " ", "b", "e", " ", "r", "o", "u", "t", "e", "d", " ", "t", "o", " ", "t", "h", "e", " ", "*", "*">>

RoutedSuffix == <<"*", "*", " ", "t", "e", "a", "m", ".">>

\* _format_response reading result["source"] for every result
_format_response_kb_only(res) ==
  IF res.action = "answer_from_kb"
    THEN Ok([text |-> res.answer, blocks |-> TRUE])
    ELSE Raised("KeyError")

\* the dict _format_response returns: its text, and whether it has blocks
_format_response(res) ==
  IF res.action = "answer_from_kb"
    THEN Ok([text |-> res.answer, blocks |-> TRUE])
    ELSE Ok([text |-> RoutedPrefix \o TeamName[res.assigned_team] \o RoutedSuffix,
             blocks |-> FALSE])

\* str.split(sub) for a non-empty separator
RECURSIVE SplitOn(_, _)
SplitOn(s, sub) ==
  IF Contains(sub, s)
    THEN LET i == CHOOSE j \in 1..(Len(s) - Len(sub) + 1) :
                    /\ SubSeq(s, j, j + Len(sub) - 1) = sub
                    /\ \A h \in 1..(j - 1) : SubSeq(s, h, h + Len(sub) - 1) # sub
         IN  <<SubSeq(s, 1, i - 1)>> \o SplitOn(SubSeq(s, i + Len(sub), Len(s)), sub)
    ELSE <<s>>

W_created == <<"T", "i", "c", "k", "e", "t", " ", "c", "r", "e", "a", "t", "e", "d", ":">>
W_url == <<"U", "R", "L", ":">>
W_na == <<"N", "/", "A">>

\* the loop of lines 327-331 over the lines of the tracker's response
RECURSIVE ParseTicket(_, _)
ParseTicket(found, lines) ==
  IF lines = <<>> THEN found
  ELSE LET line == Head(lines)
           a == IF Contains(W_created, line)
                  THEN [found EXCEPT !.ticket_id = Strip(Split(line, ":")[2])]
                  ELSE found
           b == IF Contains(W_url, line)
                  THEN [a EXCEPT !.ticket_url = Strip(SplitOn(line, W_url)[2])]
                  ELSE a
       IN  ParseTicket(b, Tail(lines))

\* jira: the outcome of jira_create_tool.func; post_ok: whether
\* chat_postMessage succeeds.  The value: the messages posted.
_create_ticket_and_notify(res, jira, post_ok) ==
  IF ~jira.ok
    THEN <<>>
    ELSE LET parsed == IF Contains(W_created, jira.val)
                         THEN ParseTicket([ticket_id |-> W_na, ticket_url |-> W_na],
                                          Split(jira.val, "\n"))
                         ELSE [ticket_id |-> W_na, ticket_url |-> W_na]
         IN  IF post_ok
               THEN << [kind |-> "ticket_created",
                        ticket_id |-> parsed.ticket_id,
                        ticket_url |-> parsed.ticket_url,
                        summary |-> res.ticket_details.summary,
                        team |-> res.ticket_details.team] >>
               ELSE <<>>

\* what the ticket tracker's tool returns, or raises
JiraOutcomes ==
  { Ok(<<"T", "i", "c", "k", "e", "t", " ", "c", "r", "e", "a", "t", "e", "d", ":", " ", "I", "N", "F", "R", "A", "-", "7", "\n", "U", "R", "L", ":", " ", "h", "t", "t", "p", "s", ":", "/", "/", "j", "i", "r", "a", "/", "b", "r", "o", "w", "s", "e", "/", "I", "N", "F", "R", "A", "-", "7", "\n", "S", "t", "a", "t", "u", "s", ":", " ", "O", "p", "e", "n">>),
    Ok(<<"E", "r", "r", "o", "r", " ", "c", "r", "e", "a", "t", "i", "n", "g", " ", "t", "i", "c", "k", "e", "t", ":", " ", "4", "0", "1", " ", "-", " ", "U", "n", "a", "u", "t", "h", "o", "r", "i", "z", "e", "d">>),
    Ok(<<"J", "I", "R", "A", " ", "i", "n", "t", "e", "g", "r", "a", "t", "i", "o", "n", " ", "d", "i", "s", "a", "b", "l", "e", "d", ".", " ", "W", "o", "u", "l", "d", " ", "h", "a", "v", "e", " ", "c", "r", "e", "a", "t", "e", "d", " ", "t", "i", "c", "k", "e", "t", ":">>),
    Raised("ToolException") }

\* what the collaborators do while one inquiry is handled
CollaboratorOutcomes ==
  [classifier : ClassifierOutcomes,
   f : [get : BOOLEAN, search : BOOLEAN, set : BOOLEAN],
   synth : SynthOutcomes,
   router : PipelineRouterOutcomes]

\* whether a call to the chat transport succeeds
TransportOutcomes == IF chat.transport = "up" THEN {TRUE} ELSE BOOLEAN

\* _process_inquiry_async is entered (lines 212-220)
ChatReceive ==
  /\ chat.pc = "idle"
  /\ \E rq \in Requests, o \in CollaboratorOutcomes, transport \in {"up", "flaky"} :
       chat' = [pc |-> "start", rq |-> rq, outcomes |-> o, transport |-> transport,
                message |-> Nothing, posts |-> <<>>, tracker |-> Nothing,
                saved |-> FALSE]
  /\ result' = EmptyDict
  /\ UNCHANGED <<pc, cache, clock, retrieval, calls>>

\* lines 224-229
ChatPost ==
  /\ chat.pc = "start"
  /\ \E ok \in TransportOutcomes :
       chat' = IF ok THEN [chat EXCEPT !.pc = "posted", !.message = Some(ProcessingText)]
                     ELSE [chat EXCEPT !.pc = "failed"]
  /\ UNCHANGED <<pc, result, cache, clock, retrieval, calls>>

\* lines 232-238
ChatProcess ==
  /\ chat.pc = "posted"
  /\ LET r == process_inquiry(chat.rq, cache, clock, chat.outcomes)
     IN  /\ cache' = r.cache
         /\ IF r.ret.ok
              THEN /\ result' = r.ret.val
                   /\ chat' = [chat EXCEPT !.pc = "processed"]
              ELSE /\ result' = result
                   /\ chat' = [chat EXCEPT !.pc = "failed"]
  /\ UNCHANGED <<pc, clock, retrieval, calls>>

\* lines 241-249
ChatUpdate ==
  /\ chat.pc = "processed"
  /\ LET formatted_response == _format_response(result)
     IN  IF ~formatted_response.ok
           THEN chat' = [chat EXCEPT !.pc = "failed"]
           ELSE \E ok \in TransportOutcomes :
                  chat' = IF ok
                            THEN [chat EXCEPT !.pc = "updated",
                                              !.message = Some(formatted_response.val.text)]
                            ELSE [chat EXCEPT !.pc = "failed"]
  /\ UNCHANGED <<pc, result, cache, clock, retrieval, calls>>

\* lines 252-253
ChatTicket ==
  /\ chat.pc = "updated"
  /\ IF result.action = "create_ticket"
       THEN \E jira \in JiraOutcomes, ok \in TransportOutcomes :
              chat' = [chat EXCEPT !.pc = "notified",
                                   !.tracker = Some(jira),
                                   !.posts = @ \o _create_ticket_and_notify(result, jira, ok)]
       ELSE chat' = [chat EXCEPT !.pc = "notified"]
  /\ UNCHANGED <<pc, result, cache, clock, retrieval, calls>>

\* line 256 and _save_inquiry (lines 352-377): the commit succeeds, or it
\* fails and the rollback succeeds, or the rollback raises as well
ChatSave ==
  /\ chat.pc = "notified"
  /\ \E db \in {"committed", "rolled_back", "rollback_raised"} :
       chat' = IF db = "rollback_raised"
                 THEN [chat EXCEPT !.pc = "failed"]
                 ELSE [chat EXCEPT !.pc = "end", !.saved = (db = "committed")]
  /\ UNCHANGED <<pc, result, cache, clock, retrieval, calls>>

\* the except branch (lines 258-273)
ChatError ==
  /\ chat.pc = "failed"
  /\ \E ok \in TransportOutcomes :
       chat' = [chat EXCEPT !.pc = "end",
                            !.posts = IF ok THEN Append(@, [kind |-> "error",
                                                            error_message |-> ErrorMessage])
                                            ELSE @]
  /\ UNCHANGED <<pc, result, cache, clock, retrieval, calls>>

\* the handler returns; its locals are dropped
ChatReturn ==
  /\ chat.pc = "end"
  /\ chat' = NoChat
  /\ result' = EmptyDict
  /\ UNCHANGED <<pc, cache, clock, retrieval, calls>>

NextChat ==
  \/ (ChatReceive /\ UNCHANGED <<race, fin, fout>>)
  \/ (ChatPost /\ UNCHANGED <<race, fin, fout>>)
  \/ (ChatProcess /\ UNCHANGED <<race, fin, fout>>)
  \/ (ChatUpdate /\ UNCHANGED <<race, fin, fout>>)
  \/ (ChatTicket /\ UNCHANGED <<race, fin, fout>>)
  \/ (ChatSave /\ UNCHANGED <<race, fin, fout>>)
  \/ (ChatError /\ UNCHANGED <<race, fin, fout>>)
  \/ (ChatReturn /\ UNCHANGED <<race, fin, fout>>)

SpecChat == Init /\ [][NextChat]_vars

\* the steps of the handler around its call of process_inquiry
ChatSteps ==
  \/ (ChatPost /\ UNCHANGED <<race, fin, fout>>)
  \/ (ChatUpdate /\ UNCHANGED <<race, fin, fout>>)
  \/ (ChatTicket /\ UNCHANGED <<race, fin, fout>>)
  \/ (ChatSave /\ UNCHANGED <<race, fin, fout>>)
  \/ (ChatError /\ UNCHANGED <<race, fin, fout>>)
  \/ (ChatReturn /\ UNCHANGED <<race, fin, fout>>)

\* the handler runs to its end without waiting: every call it makes returns
\* or raises.  ChatProcess is enabled exactly when chat.pc = "posted" and
\* leaves that position, so its weak fairness is []<>(chat.pc # "posted").
SpecChatLive ==
  /\ SpecChat
  /\ WF_vars(ChatSteps)
  /\ []<>(chat.pc # "posted")

(***************************************************************************)
(* Inputs of the answer gate: candidate lists with any tier and distance,  *)
(* as a cache hit may hand them to answer_question.                        *)
(***************************************************************************)
MaxCands == 2

Tiers == {"high", "medium", "low"}

GateDistances == {100, 299, 300, 350, 399, 400, 450, 600}

Candidates ==
  {[entry_id |-> "kb", score |-> d, relevance |-> t] : d \in GateDistances, t \in Tiers}

InitGate ==
  /\ fin \in {[fn |-> "answer_question", search_results |-> cs] :
                cs \in UNION {[1..n -> Candidates] : n \in 0..MaxCands}}
  /\ fout = NotRun
  /\ PipelineInit

CallGate ==
  /\ fin.fn = "answer_question"
  /\ ~fout.done
  /\ \E llm \in SynthOutcomes :
       LET a == AnswerFrom(fin.search_results, llm)
       IN  fout' = [done |-> TRUE, ret |-> a.ret, synth_called |-> a.synth_called,
                    high_relevance |-> StrictGate(fin.search_results), llm |-> llm]
  /\ UNCHANGED <<fin, pvars>>

NextGate == CallGate

SpecGate == InitGate /\ [][NextGate]_vars

(***************************************************************************)
(* Inputs of the classifier: responses of up to MaxLines lines.            *)
(***************************************************************************)
MaxLines == 4

ResponseLines ==
  { <<"U", "R", "G", "E", "N", "C", "Y", ":", " ", "h", "i", "g", "h">>,
    <<"u", "r", "g", "e", "n", "c", "y", ":", "l", "o", "w">>,
    <<"C", "A", "T", "E", "G", "O", "R", "Y", ":", " ", "d", "a", "t", "a", "b", "a", "s", "e">>,
    <<"N", "E", "E", "D", "S", "_", "T", "I", "C", "K", "E", "T", ":", " ", "y", "e", "s">>,
    <<"N", "e", "e", "d", "s", " ", "t", "i", "c", "k", "e", "t", ":", " ", "N", "o">>,
    <<"C", "a", "t", "e", "g", "o", "r", "y", " ", ":", " ", "N", "e", "t", "w", "o", "r", "k", ":", " ", "D", "N", "S", " ", " ">>,
    <<"n", "o", " ", "i", "d", "e", "a">> }

Newline == <<"\n">>

RECURSIVE JoinLines(_)
JoinLines(ls) ==
  IF ls = <<>> THEN <<>>
  ELSE IF Len(ls) = 1 THEN ls[1]
  ELSE ls[1] \o Newline \o JoinLines(Tail(ls))

ClassifyResponses ==
  {JoinLines(ls) : ls \in UNION {[1..n -> ResponseLines] : n \in 0..MaxLines}}

InitClassify ==
  /\ fin \in {[fn |-> "_classify_inquiry", llm |-> o] :
                o \in {Ok(r) : r \in ClassifyResponses} \cup {Raised("TimeoutError")}}
  /\ fout = NotRun
  /\ PipelineInit

CallClassify ==
  /\ fin.fn = "_classify_inquiry"
  /\ ~fout.done
  /\ fout' = [done |-> TRUE, ret |-> _classify_inquiry(fin.llm)]
  /\ UNCHANGED <<fin, pvars>>

NextClassify == CallClassify

SpecClassify == InitClassify /\ [][NextClassify]_vars

(***************************************************************************)
(* Inputs of the router.                                                   *)
(***************************************************************************)
MaxWords == 2

Vocabulary ==
  { <<"h", "e", "l", "p">>,
    <<"p", "l", "e", "a", "s", "e">>,
    <<"P", "o", "d">>,
    <<"p", "i", "p", "e", "l", "i", "n", "e">>,
    <<"d", "b">>,
    <<"p", "o", "s", "t", "g", "r", "e", "s", "q", "l">>,
    <<"s", "s", "l">>,
    <<"p", "o", "r", "t">>,
    <<"s", "u", "p", "p", "o", "r", "t">>,
    <<"d", "e", "p", "l", "o", "y", "m", "e", "n", "t">> }

Space == <<" ">>

RECURSIVE Join(_)
Join(ws) == IF Len(ws) = 1 THEN ws[1] ELSE ws[1] \o Space \o Join(Tail(ws))

RouteQuestions ==
  {Join(ws) : ws \in UNION {[1..n -> Vocabulary] : n \in 1..MaxWords}}

Categories == {<<>>, <<"d", "a", "t", "a", "b", "a", "s", "e">>}

RouterResponses ==
  { <<"d", "a", "t", "a", "b", "a", "s", "e">>,
    <<"T", "h", "e", " ", "N", "e", "t", "w", "o", "r", "k", " ", "t", "e", "a", "m">>,
    <<" ", "D", "e", "v", "O", "p", "s", " ", "o", "r", " ", "p", "l", "a", "t", "f", "o", "r", "m", "\n">>,
    <<"u", "n", "s", "u", "r", "e">>,
    <<>> }

RouterOutcomes == {Ok(r) : r \in RouterResponses} \cup {Raised("TimeoutError")}

InitRoute ==
  /\ fin \in {[fn |-> "route_inquiry", question |-> q, category |-> c] :
                q \in RouteQuestions, c \in Categories}
  /\ fout = NotRun
  /\ PipelineInit

CallRoute ==
  /\ fin.fn = "route_inquiry"
  /\ ~fout.done
  /\ \E llm \in RouterOutcomes :
       fout' = [done |-> TRUE,
                ret |-> route_inquiry(fin.question, fin.category, llm),
                team_scores |-> TeamScores(Lower(fin.question)),
                llm_called |-> RouterInvokesModel(fin.question),
                llm |-> llm]
  /\ UNCHANGED <<fin, pvars>>

NextRoute == CallRoute

SpecRoute == InitRoute /\ [][NextRoute]_vars

(***************************************************************************)
(* Inputs of VectorStore.search: what the index holds for the query, best  *)
(* first, and the number of results asked for.                             *)
(***************************************************************************)
MaxHits == 2

SearchDistances == {0, 299, 300, 599, 600, 1500}

IndexHits == {[entry_id |-> "kb", distance |-> d] : d \in SearchDistances}

InitSearch ==
  /\ fin \in {[fn |-> "search", hits |-> hs, k |-> k] :
                hs \in UNION {[1..n -> IndexHits] : n \in 0..MaxHits}, k \in {1, DefaultK}}
  /\ fout = NotRun
  /\ PipelineInit

CallSearch ==
  /\ fin.fn = "search"
  /\ ~fout.done
  /\ \E fail \in BOOLEAN :
       fout' = [done |-> TRUE, ret |-> VectorSearch(fin.hits, fin.k, fail), failed |-> fail]
  /\ UNCHANGED <<fin, pvars>>

NextSearch == CallSearch

SpecSearch == InitSearch /\ [][NextSearch]_vars

(***************************************************************************)
(* Inputs of _generate_ticket_details: questions of every length up to     *)
(* MaxQuestionLen, and the classifications _classify_inquiry returns.      *)
(***************************************************************************)
MaxQuestionLen == 150

Digits == <<"0", "1", "2", "3", "4", "5", "6", "7", "8", "9">>

\* a question of n characters, no two neighbours the same
QuestionOfLen(n) == [i \in 1..n |-> Digits[(i % 10) + 1]]

TicketClassifierOutcomes ==
  { Ok(<<"U", "R", "G", "E", "N", "C", "Y", ":", " ", "l", "o", "w">>),
    Ok(<<"U", "R", "G", "E", "N", "C", "Y", ":", " ", "M", "e", "d", "i", "u", "m">>),
    Ok(<<"U", "R", "G", "E", "N", "C", "Y", ":", " ", "H", "I", "G", "H", "\n", "C", "A", "T", "E", "G", "O", "R", "Y", ":", " ", "d", "a", "t", "a", "b", "a", "s", "e">>),
    Ok(<<"u", "r", "g", "e", "n", "c", "y", ":", " ", "c", "r", "i", "t", "i", "c", "a", "l">>),
    Ok(<<"U", "R", "G", "E", "N", "C", "Y", ":", " ", "u", "r", "g", "e", "n", "t">>),
    Ok(<<"U", "R", "G", "E", "N", "C", "Y", ":">>),
    Ok(<<>>),
    Raised("TimeoutError") }

InitTicket ==
  /\ fin \in {[fn |-> "_generate_ticket_details", question |-> QuestionOfLen(n),
               classification |-> _classify_inquiry(o).val, team |-> t,
               environment |-> Nothing, deadline |-> Nothing] :
                n \in 0..MaxQuestionLen, o \in TicketClassifierOutcomes,
                t \in {"platform", "database"}}
  /\ fout = NotRun
  /\ PipelineInit

CallTicket ==
  /\ fin.fn = "_generate_ticket_details"
  /\ ~fout.done
  /\ fout' = [done |-> TRUE,
              ret |-> _generate_ticket_details(fin.question, fin.classification, fin.team,
                                               fin.environment, fin.deadline)]
  /\ UNCHANGED <<fin, pvars>>

NextTicket == CallTicket

SpecTicket == InitTicket /\ [][NextTicket]_vars

(***************************************************************************)
(* Two runs of process_inquiry on the same question with the same          *)
(* retrieval outcome and different answers of the classifier's model.      *)
(***************************************************************************)
PairClassifierOutcomes ==
  ClassifierOutcomes \cup
    { Ok(<<"U", "R", "G", "E", "N", "C", "Y", ":", " ", "l", "o", "w", "\n", "C", "A", "T", "E", "G", "O", "R", "Y", ":", " ", "n", "e", "t", "w", "o", "r", "k", "\n", "N", "E", "E", "D", "S", "_", "T", "I", "C", "K", "E", "T", ":", " ", "n", "o">>) }

InitPair ==
  /\ fin \in {[fn |-> "process_inquiry", rq |-> rq, f |-> f, synth |-> sy, router |-> ro,
               classifier |-> <<c1, c2>>] :
                rq \in Requests, f \in [get : BOOLEAN, search : BOOLEAN, set : BOOLEAN],
                sy \in SynthOutcomes, ro \in PipelineRouterOutcomes,
                c1 \in PairClassifierOutcomes, c2 \in PairClassifierOutcomes}
  /\ fin.classifier[1] # fin.classifier[2]
  /\ fout = NotRun
  /\ PipelineInit

CallRun ==
  /\ fin.fn = "process_inquiry"
  /\ ~fout.done
  /\ LET n == IF "runs" \in DOMAIN fout THEN Len(fout.runs) ELSE 0
         run == process_inquiry(fin.rq, cache, clock,
                                [classifier |-> fin.classifier[n + 1], f |-> fin.f,
                                 synth |-> fin.synth, router |-> fin.router])
     IN  fout' = [done |-> (n + 1 = 2),
                  runs |-> (IF n = 0 THEN <<>> ELSE fout.runs) \o <<run>>]
  /\ UNCHANGED <<fin, pvars>>

NextPair == CallRun

SpecPair == InitPair /\ [][NextPair]_vars

(***************************************************************************)
(* Inputs of KnowledgeAgent.answer_question: what the index holds for the  *)
(* question, by ascending distance as collection.query returns it.  The    *)
(* question is asked twice, so that the second call can be served from     *)
(* the cache the first call filled.                                        *)
(***************************************************************************)
MaxIndex == 3

MaxAsks == 2

AnswerDistances == {100, 299, 300, 350, 399, 400, 650}

EntryId(i) == <<"kb-1", "kb-2", "kb-3", "kb-4", "kb-5">>[i]

\* the nearest items of the collection, best first
SortedHits ==
  {[i \in 1..Len(ds) |-> [entry_id |-> EntryId(i), distance |-> ds[i]]] :
     ds \in {d \in UNION {[1..n -> AnswerDistances] : n \in 0..MaxIndex} :
               \A i \in 1..(Len(d) - 1) : d[i] <= d[i + 1]}}

InitAnswer ==
  /\ fin \in {[fn |-> "ask", question |-> Q_pod, hits |-> hs] : hs \in SortedHits}
  /\ fout = NotRun
  /\ PipelineInit

\* one call of answer_question(question); the cache keeps what the call
\* stored
CallAnswer ==
  /\ fin.fn = "ask"
  /\ LET n == IF fout.done THEN fout.n ELSE 0
     IN  /\ n < MaxAsks
         /\ \E f \in [get : BOOLEAN, search : BOOLEAN, set : BOOLEAN], llm \in SynthOutcomes :
              LET a == answer_question(fin.question, cache, clock, fin.hits, f, llm)
              IN  /\ cache' = a.cache
                  /\ fout' = [done |-> TRUE, n |-> n + 1, ret |-> a.ret,
                              search_results |-> a.search_results,
                              from_cache |-> ~a.searched /\ a.search_results # <<>>,
                              synth_called |-> a.synth_called]
  /\ UNCHANGED <<pc, result, clock, retrieval, calls, chat, race, fin>>

NextAnswer == CallAnswer

SpecAnswer == InitAnswer /\ [][NextAnswer]_vars

(***************************************************************************)
(* Two pipeline instances calling search_knowledge_base with the same      *)
(* question at the same time.  They share the cache and nothing else; the  *)
(* calls of one instance on the cache and on the search backend interleave *)
(* with the calls of the other.  The search backend answers a query the    *)
(* same way every time.                                                    *)
(***************************************************************************)
Instances == 1..2

IdleInstance == [pc |-> "idle"]

\* the cache written whatever the search returned
WritesCache_always(results) == TRUE

\* the test of line 51
WritesCache(results) == results # <<>>

\* the value the call returns when no other call runs during it
Alone(q, c, now) ==
  search_knowledge_base(q, c, now, Hits(q),
                        [get |-> FALSE, search |-> FALSE, set |-> FALSE]).ret.val

InitRace ==
  /\ race \in {[q |-> q, inst |-> [i \in Instances |-> IdleInstance]] : q \in Questions}
  /\ chat = NoChat
  /\ pc = "idle"
  /\ result = EmptyDict
  /\ cache = EmptyDict
  /\ clock = 0
  /\ retrieval = NoRetrieval
  /\ calls = NoCalls
  /\ fin = Idle
  /\ fout = NotRun

\* an instance enters search_knowledge_base(question) (line 38)
RaceCall(i) ==
  /\ race.inst[i].pc \in {"idle", "done"}
  /\ race' = [race EXCEPT !.inst[i] =
                [pc |-> "start", alone |-> Alone(race.q, cache, clock), hit |-> FALSE,
                 searched |-> FALSE, sets |-> 0, results |-> <<>>]]
  /\ UNCHANGED <<cache, clock>>

\* lines 41-45
RaceGet(i) ==
  /\ race.inst[i].pc = "start"
  /\ \E fail \in BOOLEAN :
       LET cached_result == CacheGet(cache, CacheKey(race.q), clock, fail).val
       IN  race' = IF Truthy(cached_result)
                     THEN [race EXCEPT !.inst[i].pc = "done", !.inst[i].hit = TRUE,
                                       !.inst[i].results = cached_result.val]
                     ELSE [race EXCEPT !.inst[i].pc = "missed"]
  /\ UNCHANGED <<cache, clock>>

\* line 48
RaceSearch(i) ==
  /\ race.inst[i].pc = "missed"
  /\ race' = [race EXCEPT !.inst[i].pc = "searched", !.inst[i].searched = TRUE,
                          !.inst[i].results = VectorSearch(Hits(race.q), DefaultK, FALSE).val]
  /\ UNCHANGED <<cache, clock>>

\* lines 51-54
RaceSet(i) ==
  /\ race.inst[i].pc = "searched"
  /\ IF WritesCache(race.inst[i].results)
       THEN \E fail \in BOOLEAN :
              /\ cache' = CacheSet(cache, CacheKey(race.q), race.inst[i].results, CacheTTL,
                                   clock, fail).cache
              /\ race' = [race EXCEPT !.inst[i].pc = "done", !.inst[i].sets = @ + 1]
       ELSE /\ cache' = cache
            /\ race' = [race EXCEPT !.inst[i].pc = "done"]
  /\ UNCHANGED clock

\* time passes while the calls run
RaceTick ==
  /\ \E d \in TickSteps :
       /\ clock + d <= MaxClock
       /\ clock' = clock + d
  /\ UNCHANGED <<cache, race>>

NextRace ==
  \/ \E i \in Instances : RaceCall(i) /\ UNCHANGED <<pc, result, retrieval, calls, chat, fin, fout>>
  \/ \E i \in Instances : RaceGet(i) /\ UNCHANGED <<pc, result, retrieval, calls, chat, fin, fout>>
  \/ \E i \in Instances : RaceSearch(i) /\ UNCHANGED <<pc, result, retrieval, calls, chat, fin, fout>>
  \/ \E i \in Instances : RaceSet(i) /\ UNCHANGED <<pc, result, retrieval, calls, chat, fin, fout>>
  \/ (RaceTick /\ UNCHANGED <<pc, result, retrieval, calls, chat, fin, fout>>)

SpecRace == InitRace /\ [][NextRace]_vars

(***************************************************************************)
(* The weekly metrics report (SlackBot._get_weekly_metrics and             *)
(* get_weekly_metrics of metrics.py).  A time is [day, hour]: days are     *)
(* counted from a Monday, so day 0 and day 7 are Mondays.                  *)
(***************************************************************************)
MaxDay == 8

MaxStored == 2

Hours == {0, 9, 15}

Times == {[day |-> d, hour |-> h] : d \in 0..MaxDay, h \in Hours}

\* hours since 00:00 of day 0
Stamp(t) == t.day * 24 + t.hour

\* datetime.weekday(): Monday is 0
Weekday(t) == t.day % 7

\* today - timedelta(days=n)
MinusDays(t, n) == [day |-> t.day - n, hour |-> t.hour]

\* week_start of line 437 (metrics.py line 70)
WeekStart(today) == MinusDays(today, Weekday(today))

\* the rows the query of lines 438-440 returns; stored: the created_at of
\* the stored inquiries
WeeklyInquiries(stored, today) ==
  SelectSeq(stored, LAMBDA created_at : Stamp(created_at) >= Stamp(WeekStart(today)))

InitMetrics ==
  /\ fin \in {[fn |-> "weekly", today |-> t, stored |-> s] :
                t \in Times, s \in UNION {[1..n -> Times] : n \in 0..MaxStored}}
  /\ \A i \in 1..Len(fin.stored) : Stamp(fin.stored[i]) <= Stamp(fin.today)
  /\ fout = NotRun
  /\ PipelineInit

CallWeekly ==
  /\ fin.fn = "weekly"
  /\ ~fout.done
  /\ fout' = [done |-> TRUE, week_start |-> WeekStart(fin.today),
              total |-> Len(WeeklyInquiries(fin.stored, fin.today))]
  /\ UNCHANGED <<fin, pvars>>

NextMetrics == CallWeekly

SpecMetrics == InitMetrics /\ [][NextMetrics]_vars

(***************************************************************************)
(* The two writers of the cache key "kb_search:" + query: the knowledge    *)
(* agent and the search_knowledge_base tool (src/src/tools/                *)
(* knowledge_tools.py), called on the same cache in any order.  A value    *)
(* read from the cache is [type, val]: a list of candidate dicts or a str. *)
(***************************************************************************)
\* json.dumps of a str
json_dumps_str(text) == [json |-> "string", text |-> text]

\* json.loads of what either writer stored
json_loads_any(data) ==
  IF data.json = "array" THEN [type |-> "list", val |-> data.items]
                         ELSE [type |-> "str", val |-> data.text]

\* RedisCache.get on a key either writer may have set
SharedGet(c, key, now, fail) ==
  IF fail
    THEN Nothing
    ELSE LET value == RedisGet(c, key, now)
         IN  IF value.some THEN Some(json_loads_any(value.val)) ELSE Nothing

\* the text of lines 38-44: the heading and one numbered block per result
FormatResults(relevant_results) ==
  [heading |-> "Found the following relevant information:",
   blocks |-> [i \in 1..Len(relevant_results) |->
                 [number |-> i, entry_id |-> relevant_results[i].entry_id,
                  relevance |-> relevant_results[i].relevance]]]

NoRelevant == [heading |-> "No relevant information found in knowledge base.", blocks |-> <<>>]

\* the tool search_knowledge_base(query, vector_store, cache) (lines 19-49);
\* f: which collaborator calls raise.  ret is the value returned, cache the
\* store afterwards.
ToolSearchKB(query, c, now, hits, f) ==
  LET cache_key == CacheKey(query)
      cached_result == SharedGet(c, cache_key, now, f.get)
  IN  IF cached_result.some
        THEN [ret |-> cached_result.val, cache |-> c, hit |-> TRUE]
        ELSE LET results == VectorSearch(hits, DefaultK, f.search).val
                 relevant_results ==
                   SelectSeq(results, LAMBDA r : r.relevance \in {"high", "medium"})
             IN  IF results = <<>> \/ relevant_results = <<>>
                   THEN [ret |-> [type |-> "str", val |-> NoRelevant], cache |-> c,
                         hit |-> FALSE]
                   ELSE LET formatted == FormatResults(relevant_results)
                        IN  [ret |-> [type |-> "str", val |-> formatted],
                             cache |-> IF f.set THEN c
                                       ELSE RedisSetex(c, cache_key, CacheTTL,
                                                       json_dumps_str(formatted), now),
                             hit |-> FALSE]

\* KnowledgeAgent.answer_question on the shared cache: a str read from the
\* cache is returned by search_knowledge_base (line 45), is not empty, and
\* line 70 subscripts its characters with "relevance": TypeError, outside
\* the try of line 89
SharedAnswer(question, c, now, hits, f, llm) ==
  LET cached_result == SharedGet(c, CacheKey(question), now, f.get)
  IN  IF cached_result.some /\ cached_result.val.type = "str"
        THEN [ret |-> Raised("TypeError"), cache |-> c, hit |-> TRUE]
        ELSE LET a == answer_question(question, c, now, hits, f, llm)
             IN  [ret |-> a.ret, cache |-> a.cache, hit |-> cached_result.some]

InitShared ==
  /\ fin \in {[fn |-> "shared", question |-> q] : q \in Questions}
  /\ fout = NotRun
  /\ PipelineInit

\* the tool is called with the question
ToolCall ==
  /\ fin.fn = "shared"
  /\ \E f \in [get : BOOLEAN, search : BOOLEAN, set : BOOLEAN] :
       LET t == ToolSearchKB(fin.question, cache, clock, Hits(fin.question), f)
       IN  /\ cache' = t.cache
           /\ fout' = [done |-> TRUE, by |-> "tool", ret |-> Ok(t.ret), hit |-> t.hit]
  /\ UNCHANGED <<pc, result, clock, retrieval, calls, chat, race, fin>>

\* the pipeline calls answer_question with the question
AgentCall ==
  /\ fin.fn = "shared"
  /\ \E f \in [get : BOOLEAN, search : BOOLEAN, set : BOOLEAN], llm \in SynthOutcomes :
       LET a == SharedAnswer(fin.question, cache, clock, Hits(fin.question), f, llm)
       IN  /\ cache' = a.cache
           /\ fout' = [done |-> TRUE, by |-> "agent", ret |-> a.ret, hit |-> a.hit]
  /\ UNCHANGED <<pc, result, clock, retrieval, calls, chat, race, fin>>

\* time passes between two calls
SharedTick ==
  /\ fin.fn = "shared"
  /\ \E d \in TickSteps :
       /\ clock + d <= MaxClock
       /\ clock' = clock + d
  /\ UNCHANGED <<pc, result, cache, retrieval, calls, chat, race, fin, fout>>

NextShared == ToolCall \/ AgentCall \/ SharedTick

SpecShared == InitShared /\ [][NextShared]_vars

(***************************************************************************)
(* Claims about process_inquiry, checked under Spec.                       *)
(***************************************************************************)
Branched == pc \in {"branched", "done"}

KB == result.knowledge_base

\* C1: the action is answer_from_kb exactly when the retriever's result has
\* found = true and a confidence of high or medium; for every other result
\* of the retriever the action is create_ticket.
Thm_C1_Branch ==
  ("action" \in DOMAIN result) =>
    /\ result.action \in {"answer_from_kb", "create_ticket"}
    /\ (result.action = "answer_from_kb") <=>
         (KB.found = TRUE /\ (KB.confidence = "high" \/ KB.confidence = "medium"))
    /\ (KB.found = FALSE \/ KB.confidence \in {"none", "low", "error"}) =>
         result.action = "create_ticket"

Wit_C1_Answered ==
  /\ pc = "done"
  /\ result.action = "answer_from_kb"
  /\ KB.found
  /\ KB.confidence = "high"

AnswerKeys == {"answer", "source"}
TicketKeys == {"routing", "assigned_team", "ticket_details"}

\* C2: every result process_inquiry returns has exactly one outcome
\* populated: answer and source without routing, assigned_team and
\* ticket_details, or routing and ticket_details without answer.
Thm_C2_OneOutcome ==
  (pc = "done") =>
    \/ /\ AnswerKeys \subseteq DOMAIN result
       /\ TicketKeys \cap DOMAIN result = {}
    \/ /\ {"routing", "ticket_details"} \subseteq DOMAIN result
       /\ "answer" \notin DOMAIN result

Wit_C2_Ticket ==
  /\ pc = "done"
  /\ TicketKeys \subseteq DOMAIN result
  /\ "answer" \notin DOMAIN result
  /\ KB.confidence = "low"

Collaborators == {"classifier", "cache_get", "search", "cache_set", "synth", "router"}

\* C3: whichever collaborator calls raise (the language model at any of its
\* three call sites, the search backend, the cache on get or on set),
\* process_inquiry does not raise and the result it returns has
\* completed = true; a failed cache get is a cache miss, after which the
\* search backend is queried.
Thm_C3_NeverRaises ==
  /\ pc # "raised"
  /\ calls.raised \subseteq Collaborators
  /\ (pc = "done") => ("completed" \in DOMAIN result /\ result.completed = TRUE)
  /\ (pc \in {"searched", "branched", "done"} /\ "cache_get" \in calls.raised) =>
       (retrieval.ok /\ retrieval.searched)

Wit_C3_AllFail ==
  /\ pc = "done"
  /\ result.completed
  /\ calls.raised = {"classifier", "cache_get", "search", "router"}

\* C9: when the synthesis call raises, answer_question does not raise and
\* returns found = false, confidence error and the error text, and
\* process_inquiry takes the create_ticket branch.
Thm_C9_SynthFailure ==
  ("synth" \in calls.raised) =>
    /\ pc # "raised"
    /\ pc \in {"searched", "branched", "done"}
    /\ KB.found = FALSE
    /\ KB.confidence = "error"
    /\ "error" \in DOMAIN KB
    /\ KB.error = "TimeoutError"
    /\ Branched => result.action = "create_ticket"

Wit_C9_TicketAfterSynthFailure ==
  /\ pc = "done"
  /\ "synth" \in calls.raised
  /\ result.action = "create_ticket"

IsRetrieval == pc = "classified" /\ pc' \in {"searched", "raised"}

\* C10 as stated: a retrieval that follows, within 3600 seconds, a retrieval
\* of the same string that queried the search backend returns the same
\* candidate list without a search call; a retrieval that finds no
\* unexpired entry queries the search backend.
Orig_C10_SecondIsHit ==
  [][IsRetrieval =>
       /\ (/\ retrieval.q = result.question
           /\ retrieval.searched
           /\ clock < retrieval.t + 3600) =>
            (retrieval'.ret = retrieval.ret /\ ~retrieval'.searched)
       /\ ~retrieval'.live => retrieval'.searched]_vars

\* C10 amended: as above when the first retrieval obtained a non-empty list
\* and its cache write succeeded, and the second retrieval's cache read
\* succeeds.
Thm_C10_CacheHit ==
  [][IsRetrieval =>
       /\ (/\ retrieval.q = result.question
           /\ retrieval.searched
           /\ retrieval.ret # <<>>
           /\ ~retrieval.set_failed
           /\ clock < retrieval.t + 3600
           /\ ~retrieval'.get_failed) =>
            (retrieval'.ret = retrieval.ret /\ ~retrieval'.searched)
       /\ ~retrieval'.live => retrieval'.searched]_vars

\* a retrieval answered from the cache half an hour after the entry was
\* written
Wit_C10_SecondIsHit ==
  /\ pc = "searched"
  /\ retrieval.q = result.question
  /\ retrieval.live
  /\ ~retrieval.get_failed
  /\ ~retrieval.searched
  /\ retrieval.ret # <<>>
  /\ retrieval.t = 1800
  /\ cache[CacheKey(retrieval.q)].expires = 3600

(***************************************************************************)
(* Claims about the classifier, checked under SpecClassify.                *)
(***************************************************************************)
ClassifyDone == fin.fn = "_classify_inquiry" /\ fout.done

IsDefaultClassification(d) ==
  /\ DOMAIN d = {"urgency", "category", "needs_ticket"}
  /\ d.urgency = <<"m", "e", "d", "i", "u", "m">>
  /\ d.category = <<"o", "t", "h", "e", "r">>
  /\ d.needs_ticket = TRUE

NoColon(text) == \A i \in 1..Len(text) : text[i] # ":"

\* C4: on any failure of the model call (an exception, an empty response, a
\* response without any "key: value" line) _classify_inquiry returns the
\* default urgency medium, category other, needs_ticket true, and does not
\* raise.
Orig_C4_DefaultOnFailure ==
  (ClassifyDone /\ (~fin.llm.ok \/ NoColon(fin.llm.val))) =>
    (fout.ret.ok /\ IsDefaultClassification(fout.ret.val))

(***************************************************************************)
(* Claims about the answer gate, checked under SpecGate.                   *)
(***************************************************************************)
GateDone == fin.fn = "answer_question" /\ fout.done

Passes(r) == r.relevance = "high" /\ r.score < 400

Kept(r) == \E j \in 1..Len(fout.high_relevance) : fout.high_relevance[j] = r

\* C7: a candidate is kept for synthesis if and only if its tier is high and
\* its distance is below 0.4: tier high at 0.35 is kept, tier high at 0.45
\* is rejected, tier medium or low is rejected.
Thm_C7_StrictGate ==
  GateDone =>
    \A i \in 1..Len(fin.search_results) :
      LET r == fin.search_results[i]
      IN  /\ Kept(r) <=> Passes(r)
          /\ (r.relevance = "high" /\ r.score = 350) => Kept(r)
          /\ (r.relevance = "high" /\ r.score = 450) => ~Kept(r)
          /\ (r.relevance \in {"medium", "low"}) => ~Kept(r)

Wit_C7_BorderlineHigh ==
  /\ GateDone
  /\ Len(fin.search_results) = 2
  /\ fin.search_results[1] = [entry_id |-> "kb", score |-> 350, relevance |-> "high"]
  /\ fin.search_results[2] = [entry_id |-> "kb", score |-> 450, relevance |-> "high"]
  /\ fout.ret.val.found
  /\ fout.ret.val.all_results = <<fin.search_results[1]>>

\* C8: answer_question calls the synthesis model only when a candidate
\* passes the gate (tier high and distance below 0.4); an empty candidate
\* list gives found = false with confidence none, a non-empty list without a
\* passing candidate gives found = false with confidence low, both without a
\* synthesis call.
Thm_C8_SynthOnlyAfterGate ==
  GateDone =>
    LET somePasses == \E i \in 1..Len(fin.search_results) : Passes(fin.search_results[i])
    IN  /\ fout.synth_called => somePasses
        /\ fout.ret.ok
        /\ (fin.search_results = <<>>) =>
             (/\ fout.ret.val.found = FALSE
              /\ fout.ret.val.confidence = "none"
              /\ ~fout.synth_called)
        /\ (fin.search_results # <<>> /\ ~somePasses) =>
             (/\ fout.ret.val.found = FALSE
              /\ fout.ret.val.confidence = "low"
              /\ ~fout.synth_called)

Wit_C8_NonePasses ==
  /\ GateDone
  /\ fin.search_results # <<>>
  /\ \A i \in 1..Len(fin.search_results) : ~Passes(fin.search_results[i])
  /\ \E i \in 1..Len(fin.search_results) : fin.search_results[i].relevance = "high"
  /\ fout.ret.val.confidence = "low"
  /\ ~fout.synth_called

(***************************************************************************)
(* Claims about the router, checked under SpecRoute.                       *)
(***************************************************************************)
RouteDone == fin.fn = "route_inquiry" /\ fout.done

Teams == {"platform", "devops", "database", "security", "network"}

\* position of a team in the order platform, devops, database, security, network
Rank(t) ==
  CASE t = "platform" -> 1 [] t = "devops" -> 2 [] t = "database" -> 3
    [] t = "security" -> 4 [] t = "network" -> 5

\* the keyword scores of the question being routed
Scores == [t \in Teams |-> TeamScore(t, Lower(fin.question))]

\* C5: whenever some team has a non-zero keyword score for the lower-cased
\* question, route_inquiry returns method keyword, confidence high and a team
\* of maximal score, every team before it in the order platform, devops,
\* database, security, network having a strictly smaller score; a question
\* with keywords of exactly one team returns that team.
Thm_C5_KeywordRoute ==
  RouteDone =>
    LET sc == Scores
    IN  (\E t \in Teams : sc[t] > 0) =>
          /\ fout.ret.ok
          /\ fout.ret.val.method = "keyword"
          /\ fout.ret.val.confidence = "high"
          /\ fout.ret.val.team \in Teams
          /\ \A t \in Teams : sc[t] <= sc[fout.ret.val.team]
          /\ \A t \in Teams : Rank(t) < Rank(fout.ret.val.team) =>
                                 sc[t] < sc[fout.ret.val.team]
          /\ \A t \in Teams : (sc[t] > 0 /\ \A u \in Teams \ {t} : sc[u] = 0) =>
                                 fout.ret.val.team = t

\* a tie between two teams at the top score has been routed
Wit_C5_Tie ==
  /\ RouteDone
  /\ LET sc == Scores
     IN  \E t, u \in Teams :
           /\ t # u
           /\ sc[t] > 0
           /\ sc[t] = sc[u]
           /\ \A w \in Teams : sc[w] <= sc[t]
           /\ fout.ret.val.team = t

\* C6: with no keyword match and the router's model call raising,
\* route_inquiry does not raise and returns team platform, method default,
\* confidence low.
Thm_C6_RouteDefault ==
  (RouteDone /\ ~fout.llm.ok) =>
    LET sc == Scores
    IN  (\A t \in Teams : sc[t] = 0) =>
          /\ fout.ret.ok
          /\ fout.ret.val.team = "platform"
          /\ fout.ret.val.method = "default"
          /\ fout.ret.val.confidence = "low"

Wit_C6_ModelRaised ==
  /\ RouteDone
  /\ ~fout.llm.ok
  /\ fout.llm_called
  /\ fout.ret.ok
  /\ \A t \in Teams : Scores[t] = 0

(***************************************************************************)
(* Claims about the vector search, checked under SpecSearch.               *)
(***************************************************************************)
SearchDone == fin.fn = "search" /\ fout.done

\* C11: every candidate a search returns has a tier fixed by its distance d
\* alone: high iff d < 0.3, medium iff 0.3 <= d < 0.6, low iff d >= 0.6; so
\* 0.299 is high, 0.3 and 0.599 are medium, 0.6 is low.
Thm_C11_TierFromDistance ==
  SearchDone =>
    /\ fout.ret.ok
    /\ \A i \in 1..Len(fout.ret.val) :
         LET r == fout.ret.val[i]
         IN  /\ r.score = fin.hits[i].distance
             /\ r.relevance \in {"high", "medium", "low"}
             /\ (r.relevance = "high") <=> (r.score < 300)
             /\ (r.relevance = "medium") <=> (300 <= r.score /\ r.score < 600)
             /\ (r.relevance = "low") <=> (r.score >= 600)
             /\ (r.score = 299) => r.relevance = "high"
             /\ (r.score \in {300, 599}) => r.relevance = "medium"
             /\ (r.score = 600) => r.relevance = "low"

\* a search has returned candidates on both sides of the 0.3 bound
Wit_C11_AroundBound ==
  /\ SearchDone
  /\ ~fout.failed
  /\ Len(fout.ret.val) = 2
  /\ fout.ret.val[1].score = 299
  /\ fout.ret.val[1].relevance = "high"
  /\ fout.ret.val[2].score = 300
  /\ fout.ret.val[2].relevance = "medium"

(***************************************************************************)
(* Claims about the parsing of the classifier's response, checked under    *)
(* SpecClassify.                                                           *)
(***************************************************************************)
\* what each response line says, read off the line by hand: the field its
\* key names and the trimmed, lower-cased text after its first colon
LineMeaning(line) ==
  CASE line = <<"U", "R", "G", "E", "N", "C", "Y", ":", " ", "h", "i", "g", "h">> -> [field |-> "urgency", value |-> <<"h", "i", "g", "h">>]
    [] line = <<"u", "r", "g", "e", "n", "c", "y", ":", "l", "o", "w">> -> [field |-> "urgency", value |-> <<"l", "o", "w">>]
    [] line = <<"C", "A", "T", "E", "G", "O", "R", "Y", ":", " ", "d", "a", "t", "a", "b", "a", "s", "e">> -> [field |-> "category", value |-> <<"d", "a", "t", "a", "b", "a", "s", "e">>]
    [] line = <<"C", "a", "t", "e", "g", "o", "r", "y", " ", ":", " ", "N", "e", "t", "w", "o", "r", "k", ":", " ", "D", "N", "S", " ", " ">> -> [field |-> "category", value |-> <<"n", "e", "t", "w", "o", "r", "k", ":", " ", "d", "n", "s">>]
    [] line = <<"N", "E", "E", "D", "S", "_", "T", "I", "C", "K", "E", "T", ":", " ", "y", "e", "s">> -> [field |-> "needs_ticket", value |-> TRUE]
    [] line = <<"N", "e", "e", "d", "s", " ", "t", "i", "c", "k", "e", "t", ":", " ", "N", "o">> -> [field |-> "needs_ticket", value |-> FALSE]
    [] OTHER -> [field |-> "none"]

Fields == {"urgency", "category", "needs_ticket"}

\* C12: for a response whose lines carry the keys URGENCY, CATEGORY and
\* NEEDS_TICKET in any order and any key casing, _classify_inquiry returns
\* urgency and category equal to the trimmed lower-cased text after the first
\* colon and needs_ticket true iff that text equals "yes"; when several lines
\* give the same field, the value of the last of them is returned.
Thm_C12_ParsedFields ==
  (ClassifyDone /\ fin.llm.ok) =>
    LET lines == Split(fin.llm.val, "\n")
        at(F) == {i \in 1..Len(lines) : LineMeaning(lines[i]).field = F}
        last(F) == CHOOSE i \in at(F) : \A j \in at(F) : j <= i
    IN  /\ fout.ret.ok
        /\ \A F \in Fields :
             (at(F) # {}) =>
               /\ F \in DOMAIN fout.ret.val
               /\ fout.ret.val[F] = LineMeaning(lines[last(F)]).value

\* the three keys out of order, in mixed casing, urgency given twice
Wit_C12_LastWins ==
  /\ ClassifyDone
  /\ fin.llm.ok
  /\ Split(fin.llm.val, "\n") =
       << <<"N", "E", "E", "D", "S", "_", "T", "I", "C", "K", "E", "T", ":", " ", "y", "e", "s">>,
          <<"C", "a", "t", "e", "g", "o", "r", "y", " ", ":", " ", "N", "e", "t", "w", "o", "r", "k", ":", " ", "D", "N", "S", " ", " ">>,
          <<"U", "R", "G", "E", "N", "C", "Y", ":", " ", "h", "i", "g", "h">>,
          <<"u", "r", "g", "e", "n", "c", "y", ":", "l", "o", "w">> >>
  /\ fout.ret.val = [urgency |-> <<"l", "o", "w">>, category |-> <<"n", "e", "t", "w", "o", "r", "k", ":", " ", "d", "n", "s">>, needs_ticket |-> TRUE]

(***************************************************************************)
(* Claims about the ticket draft, checked under SpecTicket.                *)
(***************************************************************************)
TicketDone == fin.fn = "_generate_ticket_details" /\ fout.done

\* C13: the ticket summary has at most 100 characters: for a question of more
\* than 100 characters it is the question's first 97 characters followed by
\* "..." (100 characters in all), otherwise it is the question unchanged.
Thm_C13_Summary ==
  TicketDone =>
    LET q == fin.question
        s == fout.ret.summary
    IN  /\ Len(s) <= 100
        /\ (Len(q) > 100) =>
             /\ Len(s) = 100
             /\ \A i \in 1..97 : s[i] = q[i]
             /\ \A i \in 98..100 : s[i] = "."
        /\ (Len(q) <= 100) => s = q

\* a question of 150 characters has been cut to 100
Wit_C13_Truncated ==
  /\ TicketDone
  /\ Len(fin.question) = 150
  /\ Len(fout.ret.summary) = 100
  /\ fout.ret.summary[97] = fin.question[97]
  /\ fout.ret.summary[98] = "."

Priorities == {"Low", "Medium", "High", "Critical"}

\* C14: the draft's priority is one of Low, Medium, High, Critical: the image
\* of the classification's urgency (low to Low, medium to Medium, high to
\* High, critical to Critical), and Medium for any other or missing urgency.
Thm_C14_Priority ==
  TicketDone =>
    LET c == fin.classification
        p == fout.ret.priority
        known == {<<"l", "o", "w">>, <<"m", "e", "d", "i", "u", "m">>, <<"h", "i", "g", "h">>, <<"c", "r", "i", "t", "i", "c", "a", "l">>}
    IN  /\ p \in Priorities
        /\ ("urgency" \notin DOMAIN c) => p = "Medium"
        /\ ("urgency" \in DOMAIN c) =>
             /\ (c.urgency = <<"l", "o", "w">>) => p = "Low"
             /\ (c.urgency = <<"m", "e", "d", "i", "u", "m">>) => p = "Medium"
             /\ (c.urgency = <<"h", "i", "g", "h">>) => p = "High"
             /\ (c.urgency = <<"c", "r", "i", "t", "i", "c", "a", "l">>) => p = "Critical"
             /\ (c.urgency \notin known) => p = "Medium"

\* a draft for an urgency outside the four levels
Wit_C14_UnknownUrgency ==
  /\ TicketDone
  /\ "urgency" \in DOMAIN fin.classification
  /\ fin.classification.urgency = <<"u", "r", "g", "e", "n", "t">>
  /\ fout.ret.priority = "Medium"

(***************************************************************************)
(* Claims about process_inquiry under failing collaborators, checked       *)
(* under Spec.                                                             *)
(***************************************************************************)
\* every collaborator the inquiry called has raised: the classifier, the
\* cache, the search backend and, where it was called, the router's model
AllFailed ==
  /\ {"classifier", "cache_get", "search"} \subseteq calls.raised
  /\ (calls.cache_set > 0) => "cache_set" \in calls.raised
  /\ (calls.synth > 0) => "synth" \in calls.raised
  /\ (calls.router > 0) => "router" \in calls.raised

\* the draft carries urgency medium and category other
DefaultDraft ==
  /\ result.action = "create_ticket"
  /\ result.classification.urgency = <<"m", "e", "d", "i", "u", "m">>
  /\ result.classification.category = <<"o", "t", "h", "e", "r">>
  /\ result.ticket_details.description.urgency = <<"m", "e", "d", "i", "u", "m">>
  /\ result.ticket_details.description.category = <<"o", "t", "h", "e", "r">>
  /\ result.ticket_details.priority = "Medium"

\* C15 as stated: when every collaborator fails, process_inquiry returns a
\* create_ticket result whose draft carries urgency medium, category other
\* and team platform.
Orig_C15_DefaultDraft ==
  (pc = "done" /\ AllFailed) =>
    /\ DefaultDraft
    /\ result.ticket_details.team = "platform"
    /\ result.assigned_team = "platform"

\* C15 amended: when every collaborator fails, process_inquiry returns a
\* create_ticket result whose draft carries urgency medium and category
\* other; its team is platform when the question holds no routing keyword,
\* and otherwise the team the keyword match selects.
Thm_C15_DefaultDraft ==
  (pc = "done" /\ AllFailed) =>
    LET sc == [t \in Teams |-> TeamScore(t, Lower(result.question))]
        team == result.ticket_details.team
    IN  /\ DefaultDraft
        /\ result.assigned_team = team
        /\ (\A t \in Teams : sc[t] = 0) =>
             (team = "platform" /\ result.routing.method = "default")
        /\ (\E t \in Teams : sc[t] > 0) =>
             /\ result.routing.method = "keyword"
             /\ sc[team] > 0
             /\ \A t \in Teams : sc[t] <= sc[team]

\* a question without keywords, answered while everything is down
Wit_C15_AllDown ==
  /\ pc = "done"
  /\ AllFailed
  /\ calls.router = 1
  /\ result.question = Q_hello
  /\ result.ticket_details.team = "platform"
  /\ result.ticket_details.priority = "Medium"
  /\ result.ticket_details.labels[2] = <<"o", "t", "h", "e", "r">>

\* C16: a failure of the search backend during a retrieval is not
\* propagated: the retriever returns found = false with confidence none,
\* makes no synthesis call and writes nothing to the cache, and
\* process_inquiry takes the create_ticket branch.
Thm_C16_SearchFailure ==
  /\ [][(pc = "classified" /\ "search" \in calls'.raised) =>
          /\ pc' = "searched"
          /\ result'.knowledge_base.found = FALSE
          /\ result'.knowledge_base.confidence = "none"
          /\ calls'.synth = 0
          /\ calls'.cache_set = 0
          /\ cache' = cache]_vars
  /\ []((Branched /\ "search" \in calls.raised) => result.action = "create_ticket")

\* the backend failed on a question the index has entries for
Wit_C16_FailedSearch ==
  /\ pc = "done"
  /\ "search" \in calls.raised
  /\ "cache_get" \notin calls.raised
  /\ result.question = Q_pod
  /\ Hits(Q_pod) # <<>>
  /\ result.action = "create_ticket"
  /\ KB.confidence = "none"
  /\ CacheKey(Q_pod) \notin DOMAIN cache

(***************************************************************************)
(* Claims about pairs of runs, checked under SpecPair.                     *)
(***************************************************************************)
PairDone == fin.fn = "process_inquiry" /\ fout.done

\* C18: the classification influences neither the branch nor the retrieval:
\* two runs of process_inquiry on the same question with the same retrieval
\* outcome and different classifications take the same action, and both hand
\* the raw question to the retriever.
Thm_C18_ClassificationUnused ==
  PairDone =>
    LET a == fout.runs[1]
        b == fout.runs[2]
    IN  /\ a.ret.ok /\ b.ret.ok
        /\ (/\ a.ret.val.question = b.ret.val.question
            /\ a.ret.val.knowledge_base = b.ret.val.knowledge_base
            /\ a.ret.val.classification # b.ret.val.classification) =>
             a.ret.val.action = b.ret.val.action
        /\ a.query = Some(fin.rq.question)
        /\ b.query = Some(fin.rq.question)

\* answered from the knowledge base both when the classifier asked for a
\* ticket and when it did not
Wit_C18_NeedsTicketIgnored ==
  /\ PairDone
  /\ "needs_ticket" \in DOMAIN fout.runs[1].ret.val.classification
  /\ "needs_ticket" \in DOMAIN fout.runs[2].ret.val.classification
  /\ fout.runs[1].ret.val.classification.needs_ticket = TRUE
  /\ fout.runs[2].ret.val.classification.needs_ticket = FALSE
  /\ fout.runs[1].ret.val.knowledge_base = fout.runs[2].ret.val.knowledge_base
  /\ fout.runs[1].ret.val.action = "answer_from_kb"
  /\ fout.runs[2].ret.val.action = "answer_from_kb"

(***************************************************************************)
(* Claims about the routing decision, checked under SpecRoute.             *)
(***************************************************************************)
\* C19: in every decision route_inquiry returns the team is one of platform,
\* devops, database, security, network, and the confidence is high when the
\* team was chosen by keyword match, medium when it was chosen from the
\* model's response, low when it was chosen by the default fallback.
Thm_C19_TeamAndConfidence ==
  RouteDone =>
    LET sc == Scores
        r == fout.ret.val
        matched == \E t \in Teams : sc[t] > 0
    IN  /\ fout.ret.ok
        /\ r.team \in Teams
        /\ r.method \in {"keyword", "llm", "default"}
        /\ matched => (r.method = "keyword" /\ r.confidence = "high")
        /\ (~matched /\ fout.llm.ok) => (r.method = "llm" /\ r.confidence = "medium")
        /\ (~matched /\ ~fout.llm.ok) => (r.method = "default" /\ r.confidence = "low")
        /\ (r.method = "llm") =>
             \/ Contains(TeamName[r.team], Lower(fout.llm.val))
             \/ /\ r.team = "platform"
                /\ \A t \in Teams : ~Contains(TeamName[t], Lower(fout.llm.val))

\* the model answered without naming a team
Wit_C19_NoTeamNamed ==
  /\ RouteDone
  /\ fout.llm_called
  /\ fout.llm.ok
  /\ fout.llm.val = <<"u", "n", "s", "u", "r", "e">>
  /\ fout.ret.val.team = "platform"
  /\ fout.ret.val.method = "llm"
  /\ fout.ret.val.confidence = "medium"

(***************************************************************************)
(* Claims about the stored classification, checked under Spec.             *)
(***************************************************************************)
UrgencyLevels ==
  { <<"l", "o", "w">>,
    <<"m", "e", "d", "i", "u", "m">>,
    <<"h", "i", "g", "h">>,
    <<"c", "r", "i", "t", "i", "c", "a", "l">> }

\* C20: every classification process_inquiry stores in its result has all
\* three fields: an urgency among low, medium, high, critical, a category
\* text and a boolean needs_ticket, whatever text the model returned.
Orig_C20_ClassificationShape ==
  ("classification" \in DOMAIN result) =>
    /\ DOMAIN result.classification = {"urgency", "category", "needs_ticket"}
    /\ result.classification.urgency \in UrgencyLevels
    /\ DOMAIN result.classification.category = 1..Len(result.classification.category)
    /\ result.classification.needs_ticket \in BOOLEAN

(***************************************************************************)
(* Claims about the chat handler, checked under SpecChatLive.              *)
(***************************************************************************)
\* the model, the search backend and the cache are down, the chat transport
\* works
Outage ==
  /\ chat.pc # "idle"
  /\ ~chat.outcomes.classifier.ok
  /\ chat.outcomes.f.get /\ chat.outcomes.f.search /\ chat.outcomes.f.set
  /\ ~chat.outcomes.synth.ok
  /\ ~chat.outcomes.router.ok
  /\ chat.transport = "up"

\* the processing message has been replaced by the message naming the team
RoutedShown ==
  /\ chat.pc \notin {"idle", "start"}
  /\ chat.message.some
  /\ chat.message.val # ProcessingText
  /\ "assigned_team" \in DOMAIN result
  /\ result.assigned_team \in Teams
  /\ Contains(<<"w", "i", "l", "l", " ", "b", "e", " ", "r", "o", "u", "t", "e", "d", " ", "t", "o">>, chat.message.val)
  /\ Contains(<<"*", "*">> \o TeamName[result.assigned_team] \o <<"*", "*">>, chat.message.val)

ErrorSent ==
  /\ chat.pc # "idle"
  /\ \E i \in 1..Len(chat.posts) : chat.posts[i].kind = "error"

\* C17: for every inquiry the chat handler takes while the model, the search
\* backend and the cache all fail and the chat transport works, the
\* requester eventually receives a routed response: the processing message
\* is updated to the message naming the assigned team, and no error message
\* is sent in its place.
Thm_C17_RoutedResponse ==
  /\ (chat.pc = "start" /\ Outage) ~> (Outage /\ RoutedShown)
  /\ []((Outage /\ chat.pc = "end") => RoutedShown)
  /\ []((Outage /\ ErrorSent) => RoutedShown)

\* a question without keywords handled to the end during an outage
Wit_C17_RoutedDuringOutage ==
  /\ chat.pc = "end"
  /\ Outage
  /\ chat.rq.question = Q_hello
  /\ RoutedShown
  /\ result.assigned_team = "platform"
  /\ ~ErrorSent
  /\ chat.saved

(***************************************************************************)
(* Claims about answer_question on the candidate sets the retriever can    *)
(* obtain, checked under SpecAnswer.                                       *)
(***************************************************************************)
AnswerDone == fin.fn = "ask" /\ fout.done

Survivors == {i \in 1..Len(fout.search_results) : Passes(fout.search_results[i])}

\* C21: when answer_question returns found = true, source is a surviving
\* candidate whose distance is the lowest among the surviving candidates,
\* confidence is the tier of that candidate, and all_results holds exactly
\* the candidates that passed the gate, whether the candidates came from
\* the search or from the cache.
Thm_C21_BestMatch ==
  (AnswerDone /\ fout.ret.ok /\ fout.ret.val.found) =>
    LET cs == fout.search_results
        v == fout.ret.val
    IN  /\ \E i \in Survivors :
             /\ v.source = cs[i]
             /\ \A j \in Survivors : cs[i].score <= cs[j].score
        /\ v.confidence = v.source.relevance
        /\ Len(v.all_results) = Cardinality(Survivors)
        /\ {v.all_results[j] : j \in 1..Len(v.all_results)} = {cs[i] : i \in Survivors}

Wit_C21_BestOfTwoFromCache ==
  /\ AnswerDone
  /\ fout.from_cache
  /\ fout.ret.val.found
  /\ Len(fout.search_results) = 3
  /\ Cardinality(Survivors) = 2
  /\ fout.search_results[1].score < fout.search_results[2].score
  /\ fout.ret.val.source = fout.search_results[1]

\* C27: on the candidates VectorStore.search produces, read from the search
\* or replayed from the cache, a candidate passes the gate of
\* answer_question if and only if its distance is below 0.3, so the bound
\* 0.4 rejects no candidate of tier high; a result with found = true has
\* confidence high, never medium, and the supervisor's test of the
\* retriever's result is the test found = true with confidence high.
Thm_C27_GateIsTierBound ==
  AnswerDone =>
    LET cs == fout.search_results
        v == fout.ret.val
    IN  /\ StrictGate(cs) = SelectSeq(cs, LAMBDA r : r.score < 300)
        /\ \A i \in 1..Len(cs) : cs[i].relevance = "high" => cs[i].score < 400
        /\ fout.ret.ok
        /\ v.found => v.confidence = "high"
        /\ ~(v.found /\ v.confidence = "medium")
        /\ AnswersFromKB(v) <=> (v.found /\ v.confidence = "high")
        /\ AnswersFromKB(v) <=> v.found

Wit_C27_BorderlineRejected ==
  /\ AnswerDone
  /\ fout.from_cache
  /\ \E i \in 1..Len(fout.search_results) :
       /\ fout.search_results[i].score = 350
       /\ fout.search_results[i].relevance = "medium"
  /\ fout.ret.val.found
  /\ fout.ret.val.confidence = "high"
  /\ Len(fout.ret.val.all_results) = 1

(***************************************************************************)
(* Claims about the order of the stages, checked under Spec.               *)
(***************************************************************************)
AnswerSteps == <<"classified", "searched_kb", "answered_from_kb">>

TicketSteps == <<"classified", "searched_kb", "routed_to_team", "generated_ticket_details">>

IsPrefix(s, t) == Len(s) <= Len(t) /\ s = SubSeq(t, 1, Len(s))

StageOrder ==
  { <<"idle", "received">>, <<"received", "classified">>, <<"classified", "searched">>,
    <<"searched", "branched">>, <<"branched", "done">>, <<"done", "received">> }

Recorded(res, step) ==
  "steps" \in DOMAIN res /\ \E i \in 1..Len(res.steps) : res.steps[i] = step

\* C22: every run of process_inquiry passes the stages in the order
\* classify, knowledge retrieval, then answer or route and ticket details,
\* then completed; the steps recorded at the end are classified,
\* searched_kb, answered_from_kb or classified, searched_kb, routed_to_team,
\* generated_ticket_details; the router runs only after the retrieval has
\* returned and only on the create_ticket branch; no collaborator is called
\* more than once for one inquiry.
Thm_C22_StageOrder ==
  /\ [](pc # "raised")
  /\ []("steps" \in DOMAIN result =>
          IsPrefix(result.steps, AnswerSteps) \/ IsPrefix(result.steps, TicketSteps))
  /\ [](pc = "done" =>
          /\ result.steps \in {AnswerSteps, TicketSteps}
          /\ result.completed
          /\ result.steps = AnswerSteps <=> result.action = "answer_from_kb"
          /\ result.steps = TicketSteps <=> result.action = "create_ticket")
  /\ [](\A c \in {"classifier", "cache_get", "search", "cache_set", "synth", "router"} :
          calls[c] <= 1)
  /\ [](calls.router = 1 =>
          /\ Recorded(result, "searched_kb")
          /\ calls.cache_get = 1
          /\ result.action = "create_ticket")
  /\ [][/\ pc' # pc => <<pc, pc'>> \in StageOrder
        /\ (Recorded(result', "routed_to_team") /\ ~Recorded(result, "routed_to_team")) =>
             (/\ pc = "searched"
              /\ result.steps = <<"classified", "searched_kb">>
              /\ ~AnswersFromKB(result.knowledge_base)
              /\ result'.action = "create_ticket")
        /\ calls'.router > calls.router =>
             (pc = "searched" /\ Recorded(result', "routed_to_team"))]_vars

Wit_C22_RoutedByModel ==
  /\ pc = "done"
  /\ result.steps = TicketSteps
  /\ calls.router = 1
  /\ calls.classifier = 1
  /\ calls.search = 1
  /\ result.completed

(***************************************************************************)
(* Claims about concurrent retriever calls, checked under SpecRace.        *)
(***************************************************************************)
RaceKey == CacheKey(race.q)

\* C23: two instances run search_knowledge_base on the same question at the
\* same time over the shared cache, the search backend answering the query
\* the same way every time: under every interleaving of their cache reads,
\* searches and cache writes each instance returns the candidate list it
\* would return when run alone, and the cache never holds anything but that
\* list; the race only makes both instances miss the cache and both search.
Thm_C23_RaceKeepsResult ==
  /\ \A i \in Instances :
       race.inst[i].pc = "done" => race.inst[i].results = race.inst[i].alone
  /\ \A k \in DOMAIN cache :
       /\ k = RaceKey
       /\ json_loads(cache[k].data) = VectorSearch(Hits(race.q), DefaultK, FALSE).val

Wit_C23_BothMissBothSearch ==
  /\ \A i \in Instances :
       /\ race.inst[i].pc = "done"
       /\ race.inst[i].searched
       /\ race.inst[i].sets = 1
       /\ race.inst[i].results # <<>>
  /\ RaceKey \in DOMAIN cache
  /\ clock = 0

\* C24: on a cache miss search_knowledge_base writes the cache at most
\* once, after the search has returned, and only when the candidate list is
\* not empty: it stores the list as returned under "kb_search:" + question
\* with a TTL of 3600 seconds.  An empty search result causes no cache
\* write; a cache hit causes neither a cache write nor a search.
Thm_C24_CacheWrite ==
  /\ [](\A i \in Instances :
          race.inst[i].pc # "idle" =>
            /\ race.inst[i].sets <= 1
            /\ race.inst[i].sets = 1 => (race.inst[i].searched /\ race.inst[i].results # <<>>)
            /\ race.inst[i].hit => (~race.inst[i].searched /\ race.inst[i].sets = 0)
            /\ (race.inst[i].pc = "done" /\ race.inst[i].results = <<>>) =>
                 race.inst[i].sets = 0)
  /\ [][cache' # cache =>
          \E i \in Instances :
            /\ race.inst[i].pc = "searched"
            /\ race.inst[i].results # <<>>
            /\ race.inst[i].sets = 0
            /\ race'.inst[i].sets = 1
            /\ DOMAIN cache' = DOMAIN cache \cup {KeyPrefix \o race.q}
            /\ cache'[KeyPrefix \o race.q] =
                 [data |-> json_dumps(race.inst[i].results), expires |-> clock + 3600]]_vars
  /\ [][\A i \in Instances :
          (race.inst[i].pc = "searched" /\ race.inst[i].results = <<>>) =>
            cache' = cache]_vars

Wit_C24_EmptyNotWritten ==
  /\ race.q = Q_postgres
  /\ race.inst[1].pc = "done"
  /\ race.inst[1].searched
  /\ race.inst[1].results = <<>>
  /\ race.inst[1].sets = 0
  /\ cache = EmptyDict

(***************************************************************************)
(* Claims about the router's use of the model, checked under SpecRoute.    *)
(***************************************************************************)
NoKeyword ==
  \A t \in Teams : \A i \in 1..Len(TEAMS[t]) : ~Contains(TEAMS[t][i], Lower(fin.question))

Named(t) == Contains(TeamName[t], Lower(fout.llm.val))

\* C25: route_inquiry calls the model only when every team's keyword score
\* is 0; from the model's response it returns method llm and the first team,
\* in the order platform, devops, database, security, network, whose name
\* occurs in the response whatever the case of its letters, and team
\* platform when no team name occurs.
Thm_C25_ModelRoute ==
  RouteDone =>
    LET r == fout.ret.val
    IN  /\ fout.llm_called <=> NoKeyword
        /\ fout.llm_called <=> (\A t \in Teams : Scores[t] = 0)
        /\ r.method \in {"llm", "default"} <=> fout.llm_called
        /\ (fout.llm_called /\ fout.llm.ok) =>
             /\ r.method = "llm"
             /\ r.reason = Strip(fout.llm.val)
             /\ (\E t \in Teams : Named(t)) =>
                  (/\ Named(r.team)
                   /\ \A t \in Teams : Rank(t) < Rank(r.team) => ~Named(t))
             /\ (\A t \in Teams : ~Named(t)) => r.team = "platform"

Wit_C25_TwoTeamsNamed ==
  /\ RouteDone
  /\ fout.llm_called
  /\ fout.llm.ok
  /\ Named("devops")
  /\ Named("platform")
  /\ ~Contains(TeamName["devops"], fout.llm.val)
  /\ fout.ret.val.team = "platform"
  /\ fout.ret.val.method = "llm"

(***************************************************************************)
(* Claims about the keyword scores, checked under SpecRoute.               *)
(***************************************************************************)
\* places of the text at which the keyword starts
Places(keyword, text) ==
  {i \in 1..(Len(text) - Len(keyword) + 1) : SubSeq(text, i, i + Len(keyword) - 1) = keyword}

\* occurrences of the team's keywords in the text
Occurrences(t, text) ==
  UNION {{<<k, i>> : i \in Places(TEAMS[t][k], text)} : k \in 1..Len(TEAMS[t])}

\* keywords of the team that occur in the text
Present(t, text) == {k \in 1..Len(TEAMS[t]) : Places(TEAMS[t][k], text) # {}}

\* C26 as stated: a team's keyword score is the number of occurrences of its
\* keywords as literal substrings of the lower-cased question; a keyword
\* occurring twice contributes two.
Orig_C26_ScoreCountsOccurrences ==
  RouteDone =>
    LET text == Lower(fin.question)
    IN  \A t \in Teams : fout.team_scores[Rank(t)] = Cardinality(Occurrences(t, text))

\* C26 as amended: a team's keyword score is the number of its keywords
\* that occur at least once as a literal substring of the lower-cased
\* question; a keyword occurring twice contributes one.
Thm_C26_ScoreCountsKeywords ==
  RouteDone =>
    LET text == Lower(fin.question)
    IN  \A t \in Teams :
          /\ fout.team_scores[Rank(t)] = Cardinality(Present(t, text))
          /\ fout.team_scores[Rank(t)] <= Cardinality(Occurrences(t, text))
          /\ fout.team_scores[Rank(t)] <= Len(TEAMS[t])

Wit_C26_KeywordTwice ==
  /\ RouteDone
  /\ LET text == Lower(fin.question)
     IN  /\ \E k \in 1..Len(TEAMS["network"]) :
              Cardinality(Places(TEAMS["network"][k], text)) = 2
         /\ Cardinality(Occurrences("network", text)) = 2
  /\ fout.team_scores[Rank("network")] = 1
  /\ fout.ret.val.team = "network"

(***************************************************************************)
(* Claims about the ticket notification, checked under SpecChat.           *)
(***************************************************************************)
TicketNotified ==
  \E i \in 1..Len(chat.posts) : chat.posts[i].kind = "ticket_created"

TrackerCreated ==
  /\ chat.tracker.some
  /\ chat.tracker.val.ok
  /\ Contains(W_created, chat.tracker.val.val)

\* C29: the chat handler posts the ticket-created notification only when
\* the ticket tracker reported a created ticket, its response containing
\* "Ticket created:"; when the tracker is not configured or returns an error
\* text, no ticket-created notification is posted.
Orig_C29_NotifyOnlyCreated ==
  (chat.pc \in {"notified", "failed", "end"} /\ TicketNotified) => TrackerCreated

(***************************************************************************)
(* Claims about the weekly metrics, checked under SpecMetrics.             *)
(***************************************************************************)
MetricsDone == fin.fn = "weekly" /\ fout.done

\* 00:00 on the Monday of the week of the time
MondayMidnight(t) == [day |-> t.day - (t.day % 7), hour |-> 0]

SinceMonday ==
  {i \in 1..Len(fin.stored) : Stamp(fin.stored[i]) >= Stamp(MondayMidnight(fin.today))}

\* C30: the weekly report counts every stored inquiry created since 00:00
\* on the Monday of the current week, at whatever time of the day the
\* report is generated.
Orig_C30_WeekFromMondayMidnight ==
  MetricsDone => fout.total = Cardinality(SinceMonday)

(***************************************************************************)
(* Claims about the shared cache key, checked under SpecShared.            *)
(***************************************************************************)
IsCandidateList(data) ==
  /\ data.json = "array"
  /\ data.items # <<>>
  /\ \A i \in 1..Len(data.items) :
       {"entry_id", "score", "relevance"} \subseteq DOMAIN data.items[i]

\* C28: in every reachable state the value stored under "kb_search:" +
\* question is a non-empty list of candidate records, whichever of
\* KnowledgeAgent.search_knowledge_base and the search_knowledge_base tool
\* wrote it; so answer_question never raises on a cache hit.
Orig_C28_CacheHoldsCandidates ==
  /\ \A k \in DOMAIN cache : IsCandidateList(cache[k].data)
  /\ (fout.done /\ fout.by = "agent" /\ fout.hit) => fout.ret.ok

====
